---- MODULE Spec2Model ----
(***************************************************************************)
(* A model of the content transformation core of genshin-wiki: the         *)
(* sentinel-JSON reference extractor (transform/detail.rs), the HTML       *)
(* rich-node parser (transform/html_parser.rs), the component merge fold   *)
(* of transform_detail_page and the cross-reference store                  *)
(* (transform/bulk.rs).                                                    *)
(*                                                                         *)
(* Strings are sequences of tokens.  A token is a TLA+ string: one         *)
(* character of text ("a", " "), one JSON lexeme ("{", "\"ep_id\"", "7")   *)
(* or one markup tag ("<div>", "</div>").  serde_json::Value is a tagged   *)
(* record, Option<T> is [some |-> FALSE] or [some |-> TRUE, v |-> x].      *)
(***************************************************************************)
EXTENDS Integers, Sequences, FiniteSets, TLC

VARIABLES
    pc,          \* the position of the program that the specification runs
    nodes,       \* the Vec<HtmlNode> that came back
    value,       \* the serde_json::Value handed to the extractor
    via,         \* the entry point the value is handed to
    bulk_store,  \* the BulkStore
    html,        \* the markup handed to parse_html_content
    fragment,    \* the descent of the parser: the tokens of the parsed fragment
    at,          \* the descent of the parser: the index of the next child token
    stack,       \* the descent of the parser: its call stack
    deepest,     \* the greatest depth a parser call was made with
    rich_text_builder,  \* the RichTextBuilder that is filled and flushed
    calls,       \* the number of calls made on the builder
    primary_bulk,  \* process_bulk_data: the pages of the primary language
    fallback_map,  \* process_bulk_data: language |-> the pages of the language
    all_ids_for_primary_lang,  \* process_bulk_data: the ids that are needed
    raw_page,          \* transform_detail_page: the page
    component_tasks,   \* the spawned decode tasks: the component of each and
                       \* what its decode returns when it runs to its end
    final_components,  \* output key |-> the merged component
    arrival,           \* the tasks join_next returned, with their results
    output,            \* what transform_detail_page returned
    warnings,          \* what the loop of transform_detail_page logged
    raw_items,   \* transform_list_file: the items of the menu
    list_file,   \* what transform_list_file returned
    collected,   \* the ids that the id collector returned
    helper,        \* ApiComponent::deserialize: the component_id and the data
    deserialized,  \* what ApiComponent::deserialize returned
    lang_valid,    \* fetch_internal: whether lang is a valid header value
    attempt,       \* fetch_internal: the loop variable of the retry loop
    requests,      \* fetch_internal: what each request that was sent came back with
    last_error,    \* fetch_internal: the local last_error
    fetch_result,  \* what fetch_internal returned
    sem_category,  \* the fetch category whose semaphore is looked at
    permits,       \* the permits that the semaphore has left
    waiters,       \* the queue of the semaphore: the requests that wait in acquire
    todo,          \* how many of the other requests have not called acquire yet
    in_flight,     \* how many of the other requests hold a permit
    me,            \* where the request that is followed stands
    api_total,       \* the total that the API holds for the menu
    page_responses,  \* fetch_menu_list_items: what each page request came back with
    total_from_api,  \* fetch_menu_list_items: the local total_from_api
    current_page,    \* fetch_menu_list_items: the local current_page
    all_items,       \* fetch_menu_list_items: the local all_items
    menu_list,       \* what fetch_menu_list_items returned
    run_stats,     \* processor::run: the local run_stats
    pending,       \* processor::run: the tasks of the phase that have not come back
    fetch_errors,  \* the fetches of the run that ended in an error that is no 100010
    run_result     \* what processor::run returned

\* the variables of the extractor
matVars == <<value, via, bulk_store>>

\* the variables of the descent of the parser
descentVars == <<fragment, at, stack, deepest>>

\* the variables of the builder
builderVars == <<rich_text_builder, calls>>

\* the arguments of process_bulk_data
bulkVars == <<primary_bulk, fallback_map, all_ids_for_primary_lang>>

\* the state of transform_detail_page
pageVars == <<raw_page, component_tasks, final_components, arrival, output, warnings>>

\* the variables of transform_list_file and of the id collector
listVars == <<raw_items, list_file, collected>>

\* the variables of ApiComponent::deserialize
deVars == <<helper, deserialized>>

\* the variables of ApiClient::fetch_internal
fetchVars == <<lang_valid, attempt, requests, last_error, fetch_result>>

\* the variables of a semaphore and of the requests that go through it
semVars == <<sem_category, permits, waiters, todo, in_flight, me>>

\* the variables of fetch_menu_list_items
menuVars == <<api_total, page_responses, total_from_api, current_page, all_items, menu_list>>

\* the variables of processor::run
runVars == <<run_stats, pending, fetch_errors, run_result>>

\* the variables of the other parts of the program
restVars == <<deVars, fetchVars, semVars, menuVars, runVars>>

vars == <<pc, nodes, matVars, html, descentVars, builderVars, bulkVars, pageVars, listVars,
          restVars>>

\* ------------------------------------------------------------------------
\* Option<T>, sequences
\* ------------------------------------------------------------------------

None == [some |-> FALSE]

Some(x) == [some |-> TRUE, v |-> x]

\* Option::or_else
OrElse(a, b) == IF a.some THEN a ELSE b

\* ApiComponent::deserialize has not been called
IdleDe == helper = None /\ deserialized = None

\* no call of fetch_internal is under way
IdleFetch ==
    /\ lang_valid = TRUE
    /\ attempt = 0
    /\ requests = <<>>
    /\ last_error = None
    /\ fetch_result = None

\* no request goes through a semaphore
IdleSem ==
    /\ sem_category = "none"
    /\ permits = 0
    /\ waiters = <<>>
    /\ todo = 0
    /\ in_flight = 0
    /\ me = "todo"

\* no call of fetch_menu_list_items is under way
IdleMenu ==
    /\ api_total = None
    /\ page_responses = <<>>
    /\ total_from_api = None
    /\ current_page = 1
    /\ all_items = <<>>
    /\ menu_list = None

\* processor::run has not been called
IdleRun ==
    /\ run_stats = <<>>
    /\ pending = 0
    /\ fetch_errors = {}
    /\ run_result = None

\* the client, the fetchers and the processor are idle
IdleNet == IdleFetch /\ IdleSem /\ IdleMenu /\ IdleRun

\* the other parts of the program are idle
IdleRest == IdleDe /\ IdleNet

\* Option::unwrap_or_default for String
UnwrapOrEmpty(a) == IF a.some THEN a.v ELSE <<>>

\* Option<i64>::unwrap_or(0)
UnwrapOrZero(o) == IF o.some THEN o.v ELSE 0

\* Option<String>::filter(|s| !s.is_empty())
FilterNonEmpty(a) == IF a.some /\ a.v # <<>> THEN a ELSE None

Last(s) == s[Len(s)]

SetMin(S) == CHOOSE x \in S : \A y \in S : x <= y

SetMax(S) == CHOOSE x \in S : \A y \in S : x >= y

\* F(v), with v computed once
With(v, F(_)) == CHOOSE r \in {F(x) : x \in {v}} : TRUE

RECURSIVE Flatten(_)
\* the concatenation of a sequence of sequences
Flatten(ss) == IF ss = <<>> THEN <<>> ELSE Head(ss) \o Flatten(Tail(ss))

\* ------------------------------------------------------------------------
\* Characters and whitespace (Rust: char::is_whitespace, str::trim,
\* str::split_whitespace).  NBSP stands for U+00A0, which has the Unicode
\* White_Space property.
\* ------------------------------------------------------------------------

NBSP == "NBSP"

WhiteSpaceChars == {" ", "\n", NBSP}

\* a whitespace test that knows only the ASCII characters
IsAsciiWhitespace(c) == c \in {" ", "\n"}

\* char::is_whitespace
IsWhitespace(c) == c \in WhiteSpaceChars

\* str::trim / trim_matches(char::is_whitespace)
trim(s) ==
    LET keep == {i \in 1..Len(s) : ~IsWhitespace(s[i])}
    IN  IF keep = {} THEN <<>> ELSE SubSeq(s, SetMin(keep), SetMax(keep))

\* s.starts_with("$[") && s.ends_with("]$") on an already trimmed string
IsSentinel(s) ==
    /\ Len(s) >= 2
    /\ s[1] = "$" /\ s[2] = "["
    /\ s[Len(s) - 1] = "]" /\ s[Len(s)] = "$"

\* trimmed.get(2..trimmed.len() - 2).unwrap_or("").trim()
SentinelInner(s) == IF Len(s) >= 4 THEN trim(SubSeq(s, 3, Len(s) - 2)) ELSE <<>>

\* ------------------------------------------------------------------------
\* serde_json::Value
\* ------------------------------------------------------------------------

VNull == [t |-> "null"]

VBool(b) == [t |-> "bool", b |-> b]

VNum(n) == [t |-> "num", int |-> TRUE, n |-> n]

\* a JSON number that is no i64 (a float)
VFloat(lex) == [t |-> "num", int |-> FALSE, lex |-> lex]

VStr(s) == [t |-> "str", s |-> s]

VArr(a) == [t |-> "arr", a |-> a]

VObj(o) == [t |-> "obj", o |-> o]

EmptyMap == [k \in {} |-> VNull]

\* serde_json::Map::get
MapGet(o, k) == IF k \in DOMAIN o THEN Some(o[k]) ELSE None

\* Value::as_str
as_str(v) == IF v.t = "str" THEN Some(v.s) ELSE None

\* Value::as_i64
as_i64(v) == IF v.t = "num" /\ v.int THEN Some(v.n) ELSE None

\* The lexemes of the JSON texts the model feeds to serde_json::from_str.
IntLexemes == {"7", "3", "0", "-1", "2"}

IntOf == [l \in IntLexemes |->
            CASE l = "7" -> 7 [] l = "3" -> 3 [] l = "0" -> 0
              [] l = "-1" -> 0 - 1 [] l = "2" -> 2]

FloatLexemes == {"1.5"}

\* string lexeme |-> [key: the string as a map key, s: the string as tokens]
StringLexemes ==
    [l \in {"\"ep_id\"", "\"amount\"", "\"name\"", "\"icon\"", "\"desc\"",
            "\"Iron\"", "\"i.png\"", "\"7\"", "\"3\"", "\"\"", "\"x\"",
            "\"nickname\"", "\"o.png\"", "\"d\"", "\"list\"", "\"content\"",
            "\"key\""} |->
        CASE l = "\"ep_id\"" -> [key |-> "ep_id", s |-> <<"ep_id">>]
          [] l = "\"amount\"" -> [key |-> "amount", s |-> <<"amount">>]
          [] l = "\"name\"" -> [key |-> "name", s |-> <<"name">>]
          [] l = "\"icon\"" -> [key |-> "icon", s |-> <<"icon">>]
          [] l = "\"desc\"" -> [key |-> "desc", s |-> <<"desc">>]
          [] l = "\"Iron\"" -> [key |-> "Iron", s |-> <<"Iron">>]
          [] l = "\"i.png\"" -> [key |-> "i.png", s |-> <<"i.png">>]
          [] l = "\"7\"" -> [key |-> "7", s |-> <<"7">>]
          [] l = "\"3\"" -> [key |-> "3", s |-> <<"3">>]
          [] l = "\"\"" -> [key |-> "", s |-> <<>>]
          [] l = "\"x\"" -> [key |-> "x", s |-> <<"x">>]
          [] l = "\"nickname\"" -> [key |-> "nickname", s |-> <<"nickname">>]
          [] l = "\"o.png\"" -> [key |-> "o.png", s |-> <<"o.png">>]
          [] l = "\"d\"" -> [key |-> "d", s |-> <<"d">>]
          [] l = "\"list\"" -> [key |-> "list", s |-> <<"list">>]
          [] l = "\"content\"" -> [key |-> "content", s |-> <<"content">>]
          [] l = "\"key\"" -> [key |-> "key", s |-> <<"key">>]]

IsJsonWs(c) == c \in {" ", "\n"}

\* the first index >= i of a token that is no JSON whitespace (Len + 1: none)
SkipWs(toks, i) ==
    IF \A j \in i..Len(toks) : IsJsonWs(toks[j]) THEN Len(toks) + 1
    ELSE SetMin({j \in i..Len(toks) : ~IsJsonWs(toks[j])})

JFail == [ok |-> FALSE]

JOk(v, i) == [ok |-> TRUE, v |-> v, i |-> i]

RECURSIVE JValue(_, _), JValueAt(_, _), JMembers(_, _, _), JMemberAt(_, _, _),
          JMemberColon(_, _, _, _), JMemberValue(_, _, _, _), JMemberEnd(_, _, _),
          JElems(_, _, _), JElemAt(_, _, _, _), JElemValue(_, _, _), JElemEnd(_, _, _)
\* serde_json's parser: one JSON value starting at token i0; i of the result
\* is the index after the value
JValue(toks, i0) == JValueAt(toks, SkipWs(toks, i0))

\* the value whose first token is token i
JValueAt(toks, i) ==
    IF i > Len(toks) THEN JFail
    ELSE CASE toks[i] = "{" -> JMembers(toks, i + 1, EmptyMap)
           [] toks[i] = "[" -> JElems(toks, i + 1, <<>>)
           [] toks[i] \in IntLexemes -> JOk(VNum(IntOf[toks[i]]), i + 1)
           [] toks[i] \in FloatLexemes -> JOk(VFloat(toks[i]), i + 1)
           [] toks[i] \in DOMAIN StringLexemes -> JOk(VStr(StringLexemes[toks[i]].s), i + 1)
           [] toks[i] = "null" -> JOk(VNull, i + 1)
           [] toks[i] = "true" -> JOk(VBool(TRUE), i + 1)
           [] toks[i] = "false" -> JOk(VBool(FALSE), i + 1)
           [] OTHER -> JFail

\* the members of an object from token i up to its "}": "}" at once (only
\* for the empty map acc), or key ":" value and then "," or "}"
JMembers(toks, i, acc) == JMemberAt(toks, SkipWs(toks, i), acc)

JMemberAt(toks, k, acc) ==
    IF k > Len(toks) THEN JFail
    ELSE IF toks[k] = "}" /\ acc = EmptyMap THEN JOk(VObj(EmptyMap), k + 1)
    ELSE IF toks[k] \notin DOMAIN StringLexemes THEN JFail
    ELSE JMemberColon(toks, k, SkipWs(toks, k + 1), acc)

JMemberColon(toks, k, c, acc) ==
    IF c > Len(toks) \/ toks[c] # ":" THEN JFail
    ELSE JMemberValue(toks, StringLexemes[toks[k]].key, JValue(toks, c + 1), acc)

JMemberValue(toks, key, r, acc) ==
    IF ~r.ok THEN JFail
    ELSE JMemberEnd(toks, SkipWs(toks, r.i),
                    [x \in DOMAIN acc \cup {key} |-> IF x = key THEN r.v ELSE acc[x]])

JMemberEnd(toks, e, acc) ==
    IF e > Len(toks) THEN JFail
    ELSE IF toks[e] = "," THEN JMembers(toks, e + 1, acc)
    ELSE IF toks[e] = "}" THEN JOk(VObj(acc), e + 1)
    ELSE JFail

\* the elements of an array from token i up to its "]": "]" at once (only for
\* the empty array acc), or a value and then "," or "]"
JElems(toks, i, acc) == JElemAt(toks, i, SkipWs(toks, i), acc)

JElemAt(toks, i, k, acc) ==
    IF k <= Len(toks) /\ toks[k] = "]" /\ acc = <<>> THEN JOk(VArr(<<>>), k + 1)
    ELSE JElemValue(toks, JValue(toks, i), acc)

JElemValue(toks, r, acc) ==
    IF ~r.ok THEN JFail ELSE JElemEnd(toks, SkipWs(toks, r.i), Append(acc, r.v))

JElemEnd(toks, e, acc) ==
    IF e > Len(toks) THEN JFail
    ELSE IF toks[e] = "," THEN JElems(toks, e + 1, acc)
    ELSE IF toks[e] = "]" THEN JOk(VArr(acc), e + 1)
    ELSE JFail

\* a parsed value with nothing but whitespace after it
JWhole(toks, r) == IF r.ok /\ SkipWs(toks, r.i) > Len(toks) THEN Some(r.v) ELSE None

\* serde_json::from_str::<Value>
from_str(toks) == JWhole(toks, JValue(toks, 1))

\* serde_json::from_value::<Vec<Map<String, Value>>>
from_value_vec_map(v) ==
    IF v.t = "arr" /\ \A i \in 1..Len(v.a) : v.a[i].t = "obj"
    THEN Some([i \in 1..Len(v.a) |-> v.a[i].o])
    ELSE None

\* serde_json::from_value::<Map<String, Value>>
from_value_map(v) == IF v.t = "obj" THEN Some(v.o) ELSE None

\* Option<Value>::and_then(from_value::<Vec<Map<String, Value>>>)
AndThenVecMap(r) == IF r.some THEN from_value_vec_map(r.v) ELSE None

\* Option<Value>::and_then(from_value::<Map<String, Value>>)
AndThenMap(r) == IF r.some THEN from_value_map(r.v) ELSE None

\* serde_json::from_str::<Vec<Map<String, Value>>>
from_str_vec_map(toks) == AndThenVecMap(from_str(toks))

\* serde_json::from_str::<Map<String, Value>>
from_str_map(toks) == AndThenMap(from_str(toks))

\* str::parse::<i64> of a trimmed string
parse_i64(s) == IF Len(s) = 1 /\ s[1] \in IntLexemes THEN Some(IntOf[s[1]]) ELSE None

\* transform::util::parse_value_as_optional_i64
parse_value_as_optional_i64(v) ==
    CASE v.t = "num" -> as_i64(v)
      [] v.t = "str" -> parse_i64(trim(v.s))
      [] OTHER -> None

\* ------------------------------------------------------------------------
\* The cross-reference store (transform/bulk.rs)
\* ------------------------------------------------------------------------

BulkInfo(name, desc, icon) == [name |-> name, desc |-> desc, best_icon_url |-> icon]

EmptyStore == [id \in {} |-> BulkInfo(None, None, None)]

\* BulkStore::get_name
get_name(store, id) == IF id \in DOMAIN store THEN store[id].name ELSE None

\* BulkStore::get_icon
get_icon(store, id) == IF id \in DOMAIN store THEN store[id].best_icon_url ELSE None

\* BulkStore::get_desc
get_desc(store, id) == IF id \in DOMAIN store THEN store[id].desc ELSE None

\* api::model::ApiBulkPage without its id
ApiBulkPage(name, desc, icon_url) == [name |-> name, desc |-> desc, icon_url |-> icon_url]

NoPages == [id \in {} |-> ApiBulkPage(None, None, None)]

\* an icon test that looks only for the empty string
icon_not_empty(icon) == icon.some /\ icon.v # <<>>

\* if let Some(icon) = .. { if !icon.is_empty() && !icon.contains("invalid-file")
icon_valid(icon) ==
    /\ icon.some
    /\ icon.v # <<>>
    /\ \A i \in 1..Len(icon.v) : icon.v[i] # "invalid-file"

\* bulk.get(&id).and_then(|page| page.icon_url)
page_icon(bulk, id) == IF id \in DOMAIN bulk THEN bulk[id].icon_url ELSE None

RECURSIVE fallback_icon(_, _, _, _)
\* the loop over fallback_map.values(), here the languages values from index
\* k: the icon of the first page with a valid icon
fallback_icon(fallback, values, k, id) ==
    IF k > Len(values) THEN None
    ELSE IF icon_valid(page_icon(fallback[values[k]], id))
    THEN page_icon(fallback[values[k]], id)
    ELSE fallback_icon(fallback, values, k + 1, id)

\* the BulkInfo that the loop body of process_bulk_data builds for id
bulk_info(primary, fallback, values, id) ==
    BulkInfo(IF id \in DOMAIN primary THEN primary[id].name ELSE None,
             IF id \in DOMAIN primary THEN primary[id].desc ELSE None,
             IF icon_valid(page_icon(primary, id)) THEN page_icon(primary, id)
             ELSE fallback_icon(fallback, values, 1, id))

\* store_map.insert(id, info) happens for an info with a name, a desc or an icon
bulk_info_kept(info) == info.name.some \/ info.desc.some \/ info.best_icon_url.some

\* process_bulk_data; values is the order in which fallback_map.values() yields
\* the languages
process_bulk_data(primary, fallback, values, all_ids) ==
    [id \in {i \in all_ids : bulk_info_kept(bulk_info(primary, fallback, values, i))} |->
        bulk_info(primary, fallback, values, id)]

\* ------------------------------------------------------------------------
\* HtmlNode (model/html.rs)
\* ------------------------------------------------------------------------

RichText(text, alignment) == [type |-> "RichText", text |-> text, alignment |-> alignment]

Heading(level, text, alignment) ==
    [type |-> "Heading", level |-> level, text |-> text, alignment |-> alignment]

CustomEntry(ep_id, name, desc, icon_url, amount, display_style, menu_id) ==
    [type |-> "CustomEntry", ep_id |-> ep_id, name |-> name, desc |-> desc,
     icon_url |-> icon_url, amount |-> amount, display_style |-> display_style,
     menu_id |-> menu_id]

\* html::default_display_style
default_display_style == <<"link">>

\* ------------------------------------------------------------------------
\* Markup: the tag tokens of the model's inputs and the tree that
\* scraper::Html::parse_fragment builds from them
\* ------------------------------------------------------------------------

Tag(kind, tag, style, attrs) == [kind |-> kind, tag |-> tag, style |-> style, attrs |-> attrs]

NoAttrs == [a \in {} |-> <<>>]

\* tag token |-> its kind (open, close, void, comment), name, style attribute
\* (a sequence of declarations) and other attributes
TagInfo ==
    ("<html>" :> Tag("open", "html", <<>>, NoAttrs)) @@
    ("<div>" :> Tag("open", "div", <<>>, NoAttrs)) @@
    ("</div>" :> Tag("close", "div", <<>>, NoAttrs)) @@
    ("<div style=\"text-align:center\">" :>
        Tag("open", "div", <<"text-align:center">>, NoAttrs)) @@
    ("<p>" :> Tag("open", "p", <<>>, NoAttrs)) @@
    ("</p>" :> Tag("close", "p", <<>>, NoAttrs)) @@
    ("<p style=\"text-align: right\">" :>
        Tag("open", "p", <<"text-align: right">>, NoAttrs)) @@
    ("<center>" :> Tag("open", "center", <<>>, NoAttrs)) @@
    ("</center>" :> Tag("close", "center", <<>>, NoAttrs)) @@
    ("<span>" :> Tag("open", "span", <<>>, NoAttrs)) @@
    ("</span>" :> Tag("close", "span", <<>>, NoAttrs)) @@
    ("<span style=\"color:#FF0000\">" :> Tag("open", "span", <<"color:#FF0000">>, NoAttrs)) @@
    ("<span style=\"color:#ff0000\">" :> Tag("open", "span", <<"color:#ff0000">>, NoAttrs)) @@
    ("<span style=\"color:#00ff00\">" :> Tag("open", "span", <<"color:#00ff00">>, NoAttrs)) @@
    ("<span style=\"color:bogus\">" :> Tag("open", "span", <<"color:bogus">>, NoAttrs)) @@
    ("<b>" :> Tag("open", "b", <<>>, NoAttrs)) @@
    ("</b>" :> Tag("close", "b", <<>>, NoAttrs)) @@
    ("<br>" :> Tag("void", "br", <<>>, NoAttrs)) @@
    ("<h1>" :> Tag("open", "h1", <<>>, NoAttrs)) @@
    ("</h1>" :> Tag("close", "h1", <<>>, NoAttrs)) @@
    ("<h2 style=\"text-align:left\">" :> Tag("open", "h2", <<"text-align:left">>, NoAttrs)) @@
    ("</h2>" :> Tag("close", "h2", <<>>, NoAttrs)) @@
    ("<script>" :> Tag("open", "script", <<>>, NoAttrs)) @@
    ("</script>" :> Tag("close", "script", <<>>, NoAttrs)) @@
    ("<!---->" :> Tag("comment", "", <<>>, NoAttrs)) @@
    ("<custom-entry epid=\"7\" icon=\"t.png\" amount=\"2\">" :>
        Tag("open", "custom-entry", <<>>,
            [a \in {"epid", "icon", "amount"} |->
                CASE a = "epid" -> <<"7">> [] a = "icon" -> <<"t.png">>
                  [] a = "amount" -> <<"2">>])) @@
    ("<custom-entry epid=\"0\">" :>
        Tag("open", "custom-entry", <<>>, [a \in {"epid"} |-> <<"0">>])) @@
    ("</custom-entry>" :> Tag("close", "custom-entry", <<>>, NoAttrs)) @@
    ("<custom-post postid=\"3\">" :>
        Tag("open", "custom-post", <<>>, [a \in {"postid"} |-> <<"3">>])) @@
    ("</custom-post>" :> Tag("close", "custom-post", <<>>, NoAttrs)) @@
    ("<custom-image url=\"u.png\">" :>
        Tag("open", "custom-image", <<>>, [a \in {"url"} |-> <<"u.png">>])) @@
    ("</custom-image>" :> Tag("close", "custom-image", <<>>, NoAttrs)) @@
    ("<custom-ruby>" :> Tag("open", "custom-ruby", <<>>, NoAttrs)) @@
    ("</custom-ruby>" :> Tag("close", "custom-ruby", <<>>, NoAttrs)) @@
    ("<rb>" :> Tag("open", "rb", <<>>, NoAttrs)) @@
    ("</rb>" :> Tag("close", "rb", <<>>, NoAttrs)) @@
    ("<rt>" :> Tag("open", "rt", <<>>, NoAttrs)) @@
    ("</rt>" :> Tag("close", "rt", <<>>, NoAttrs))

IsTag(tok) == tok \in DOMAIN TagInfo

TagKind(tok) == IF IsTag(tok) THEN TagInfo[tok].kind ELSE "text"

\* s.contains('<') && s.contains('>'): the string holds a tag
ContainsAngleBrackets(s) == \E i \in 1..Len(s) : IsTag(s[i])

TextNode(text) == [k |-> "text", text |-> text]

Element(tok, kids) == [k |-> "el", tok |-> tok, kids |-> kids]

CommentNode == [k |-> "comment"]

RECURSIVE parse_nodes(_, _)
\* the sibling nodes from token i up to the close tag of their parent (or the
\* end); i of the result is the index of that close tag
parse_nodes(toks, i) ==
    LET cons(node, rest) == [kids |-> <<node>> \o rest.kids, i |-> rest.i]
        text(j) == cons(TextNode(SubSeq(toks, i, j - 1)), parse_nodes(toks, j))
        open(inner) == cons(Element(toks[i], inner.kids), parse_nodes(toks, inner.i + 1))
    IN  IF i > Len(toks) \/ TagKind(toks[i]) = "close" THEN [kids |-> <<>>, i |-> i]
        ELSE CASE TagKind(toks[i]) = "text" ->
                    IF \A j \in i..Len(toks) : ~IsTag(toks[j]) THEN text(Len(toks) + 1)
                    ELSE text(SetMin({j \in i..Len(toks) : IsTag(toks[j])}))
               [] TagKind(toks[i]) = "open" -> open(parse_nodes(toks, i + 1))
               [] TagKind(toks[i]) = "void" ->
                    cons(Element(toks[i], <<>>), parse_nodes(toks, i + 1))
               [] OTHER -> cons(CommentNode, parse_nodes(toks, i + 1))

\* ElementRef::value().attr(name)
attr(el, name) ==
    IF name \in DOMAIN TagInfo[el.tok].attrs THEN Some(TagInfo[el.tok].attrs[name]) ELSE None

\* style declaration |-> the value of a declaration that starts with "color:"
\* and the alignment that style.contains("text-align:...") finds in it
StyleDecls ==
    [d \in {"color:#FF0000", "color:#ff0000", "color:#00ff00", "color:bogus",
            "text-align:center", "text-align: right", "text-align:left"} |->
        CASE d = "color:#FF0000" -> [color |-> Some("#FF0000"), align |-> None]
          [] d = "color:#ff0000" -> [color |-> Some("#ff0000"), align |-> None]
          [] d = "color:#00ff00" -> [color |-> Some("#00ff00"), align |-> None]
          [] d = "color:bogus" -> [color |-> Some("bogus"), align |-> None]
          [] d = "text-align:center" -> [color |-> None, align |-> Some(<<"center">>)]
          [] d = "text-align: right" -> [color |-> None, align |-> Some(<<"right">>)]
          [] d = "text-align:left" -> [color |-> None, align |-> Some(<<"left">>)]]

\* csscolorparser: color.to_hex_string()[1..].to_lowercase()
parse_css_color_to_hex(css_color) ==
    CASE css_color \in {"#FF0000", "#ff0000", "red"} -> Some("ff0000")
      [] css_color = "#00ff00" -> Some("00ff00")
      [] OTHER -> None

\* style.split(';').find_map(..): the first declaration that starts with "color:"
get_element_style_color_value(el) ==
    LET first(style) ==
          IF \A i \in 1..Len(style) : ~StyleDecls[style[i]].color.some THEN None
          ELSE StyleDecls[style[SetMin({i \in 1..Len(style) :
                                          StyleDecls[style[i]].color.some})]].color
    IN  first(TagInfo[el.tok].style)

get_element_style_color_hex(el) ==
    LET hex(v) == IF v.some THEN parse_css_color_to_hex(v.v) ELSE None
    IN  hex(get_element_style_color_value(el))

\* transform::util::get_alignment_style
get_alignment_style(el) ==
    LET has(style, a) == \E i \in 1..Len(style) : StyleDecls[style[i]].align = Some(<<a>>)
        first(style) ==
          IF has(style, "center") THEN Some(<<"center">>)
          ELSE IF has(style, "right") THEN Some(<<"right">>)
          ELSE IF has(style, "left") THEN Some(<<"left">>)
          ELSE None
    IN  first(TagInfo[el.tok].style)

\* transform::util::get_alignment_attr
get_alignment_attr(el) ==
    LET known(a) == IF a \in {<<"left">>, <<"center">>, <<"right">>} THEN Some(a) ELSE None
    IN  IF attr(el, "align").some THEN known(trim(attr(el, "align").v)) ELSE None

\* text.split_whitespace().collect::<Vec<_>>().join(" ")
normalize_whitespace(text) ==
    LET keep(i) == \/ ~IsWhitespace(text[i])
                   \/ /\ i > 1 /\ ~IsWhitespace(text[i - 1])
                      /\ \E j \in (i + 1)..Len(text) : ~IsWhitespace(text[j])
        pick(idx) ==
          [n \in 1..Len(idx) |-> IF IsWhitespace(text[idx[n]]) THEN " " ELSE text[idx[n]]]
    IN  pick(SelectSeq([i \in 1..Len(text) |-> i], keep))

RECURSIVE all_text(_)
\* ElementRef::text().collect::<String>(): the text of all descendants
all_text(node) ==
    CASE node.k = "text" -> node.text
      [] node.k = "el" -> Flatten([i \in 1..Len(node.kids) |-> all_text(node.kids[i])])
      [] OTHER -> <<>>

extract_plain_text(el) == normalize_whitespace(all_text(el))

\* ------------------------------------------------------------------------
\* RichTextBuilder (transform/html_parser.rs)
\* ------------------------------------------------------------------------

\* the inline color markers of the output's rich text:
\* marker |-> hex: the digits; slice: the text from '#' up to '>'
ColorTags ==
    [m \in {"<color=#ff0000>", "<color=#FF0000>", "<color=#00ff00>"} |->
        CASE m = "<color=#ff0000>" -> [hex |-> "ff0000", slice |-> "#ff0000"]
          [] m = "<color=#FF0000>" -> [hex |-> "FF0000", slice |-> "#FF0000"]
          [] m = "<color=#00ff00>" -> [hex |-> "00ff00", slice |-> "#00ff00"]]

CloseColor == "</color>"

\* write!(buffer, "<color=#{}>", color_hex)
OpenColor(hex) == CHOOSE m \in DOMAIN ColorTags : ColorTags[m].hex = hex

\* str::eq_ignore_ascii_case
eq_ignore_ascii_case(a, b) ==
    LET lower(x) == CASE x = "FF0000" -> "ff0000" [] x = "#FF0000" -> "#ff0000"
                      [] OTHER -> x
    IN  lower(a) = lower(b)

\* RichTextBuilder::new
NewBuilder == [buffer |-> <<>>, color_stack |-> <<None>>, needs_space |-> FALSE]

current_color(b) == IF b.color_stack = <<>> THEN None ELSE Last(b.color_stack)

\* a push_color that pushes the color of the tag and nothing for a tag
\* without one
push_color_own(b, new_color_hex) == [b EXCEPT !.color_stack = Append(@, new_color_hex)]

push_color(b, new_color_hex) ==
    [b EXCEPT !.color_stack = Append(@, OrElse(new_color_hex, current_color(b)))]

pop_color(b) ==
    IF Len(b.color_stack) > 1
    THEN [b EXCEPT !.color_stack = SubSeq(@, 1, Len(@) - 1)]
    ELSE b

EndsWithWhitespace(s) == s # <<>> /\ IsWhitespace(Last(s))

add_text(b, text) ==
    LET spaced == IF b.needs_space /\ b.buffer # <<>> /\ ~EndsWithWhitespace(b.buffer)
                  THEN Append(b.buffer, " ") ELSE b.buffer
        written(normalized, color) ==
          IF color.some THEN <<OpenColor(color.v)>> \o normalized \o <<CloseColor>>
          ELSE normalized
        push(cleaned, normalized) ==
          IF normalized # <<>>
          THEN [b EXCEPT !.buffer = spaced \o written(normalized, current_color(b)),
                         !.needs_space = ~EndsWithWhitespace(normalized)]
          ELSE IF /\ \E i \in 1..Len(cleaned) : IsWhitespace(cleaned[i])
                  /\ b.buffer # <<>> /\ ~EndsWithWhitespace(b.buffer)
          THEN [b EXCEPT !.needs_space = TRUE]
          ELSE b
        clean(cleaned) == push(cleaned, normalize_whitespace(cleaned))
    IN  clean([i \in 1..Len(text) |-> IF text[i] = NBSP THEN " " ELSE text[i]])

add_newline(b) ==
    [b EXCEPT !.buffer = IF @ # <<>> /\ Last(@) # "\n" THEN Append(@, "\n") ELSE @,
              !.needs_space = FALSE]

\* the color slice of the last "<color=#" before token i of the buffer
previous_color_opt(buffer, i) ==
    IF \A j \in 1..(i - 1) : buffer[j] \notin DOMAIN ColorTags THEN None
    ELSE Some(ColorTags[buffer[SetMax({j \in 1..(i - 1) :
                                         buffer[j] \in DOMAIN ColorTags})]].slice)

\* token i of the buffer starts a match of RE_ADJACENT_CLR, "</color><color=#H>",
\* that the first pass of flush does not copy: the previous color slice equals H
adjacent_dropped(buffer, i) ==
    LET same(prev_col) == prev_col.some
                          /\ eq_ignore_ascii_case(prev_col.v, ColorTags[buffer[i + 1]].hex)
    IN  /\ i >= 1
        /\ i < Len(buffer)
        /\ buffer[i] = CloseColor
        /\ buffer[i + 1] \in DOMAIN ColorTags
        /\ same(previous_color_opt(buffer, i))

\* the first pass of flush
flush_pass1(buffer) ==
    LET keep(i) == ~adjacent_dropped(buffer, i) /\ ~adjacent_dropped(buffer, i - 1)
        pick(idx) == [n \in 1..Len(idx) |-> buffer[idx[n]]]
    IN  pick(SelectSeq([i \in 1..Len(buffer) |-> i], keep))

RECURSIVE flush_pass2_from(_, _)
\* RE_EMPTY_COLOR.replace_all(buffer, ""): the scan from token i
flush_pass2_from(buffer, i) ==
    LET empty_color_end ==
          IF \A j \in (i + 1)..Len(buffer) : IsWhitespace(buffer[j]) THEN 0
          ELSE SetMin({j \in (i + 1)..Len(buffer) : ~IsWhitespace(buffer[j])})
        scan(e) ==
          IF buffer[i] \in DOMAIN ColorTags /\ e > 0 /\ buffer[e] = CloseColor
          THEN flush_pass2_from(buffer, e + 1)
          ELSE <<buffer[i]>> \o flush_pass2_from(buffer, i + 1)
    IN  IF i > Len(buffer) THEN <<>> ELSE scan(empty_color_end)

flush_pass2(buffer) == flush_pass2_from(buffer, 1)

\* one iteration of the loop of flush
flush_iteration(buffer) == flush_pass2(flush_pass1(buffer))

\* a loop test that ends the loop after its first turn
loop_ended_at_once(before_len, buffer) == TRUE

\* if self.buffer.len() == before_len { break; }
loop_ended(before_len, buffer) == Len(buffer) = before_len

RECURSIVE flush_loop(_)
\* the loop of flush: iterate until the length no longer changes
flush_loop(buffer) ==
    LET again(after) == IF loop_ended(Len(buffer), after) THEN after ELSE flush_loop(after)
    IN  again(flush_iteration(buffer))

\* what flush does after its loop: trim, and no node for an empty text
flush_emit(buffer, alignment) ==
    LET emit(trimmed_text) ==
          IF trimmed_text # <<>> THEN <<RichText(trimmed_text, alignment)>> ELSE <<>>
    IN  emit(trim(buffer))

\* RichTextBuilder::flush; the Option is a sequence of zero or one node
flush(b, alignment) == flush_emit(flush_loop(b.buffer), alignment)

\* ------------------------------------------------------------------------
\* The recursive descent of transform/html_parser.rs
\* ------------------------------------------------------------------------

MAX_RECURSION_DEPTH == 15

HEADING_TAGS == {"h1", "h2", "h3", "h4", "h5", "h6"}

HTML_STRIP_TAGS == {"style", "script", "meta", "link"}

HTML_BLOCK_TAGS ==
    {"p", "div", "ul", "ol", "blockquote", "figure", "body", "html", "header", "footer",
     "section", "article", "aside", "table", "tbody", "tr", "td", "th", "pre"}

HTML_INLINE_TAGS ==
    {"span", "a", "b", "i", "u", "em", "strong", "font", "mark", "small", "sub", "sup",
     "code", "img"}

TARGET_HTML_CUSTOM_TAGS ==
    {"custom-entry", "custom-image", "custom-ruby", "custom-post", "custom-video",
     "custom-map"}

\* tag[1..].parse::<u8>() of a heading tag
HeadingLevel(tag) ==
    CASE tag = "h1" -> 1 [] tag = "h2" -> 2 [] tag = "h3" -> 3
      [] tag = "h4" -> 4 [] tag = "h5" -> 5 [] tag = "h6" -> 6

HTML_DEPTH_SENTINEL == <<"[HTML Depth Limit Exceeded]">>

INLINE_DEPTH_SENTINEL == <<" ", "[Inline Depth Limit]", " ">>

CustomImage(url, alignment) == [type |-> "CustomImage", url |-> url, alignment |-> alignment]

CustomRuby(rb, rt) == [type |-> "CustomRuby", rb |-> rb, rt |-> rt]

CustomPost(post_id, name, icon_url) ==
    [type |-> "CustomPost", post_id |-> post_id, name |-> name, icon_url |-> icon_url]

CustomVideo(url) == [type |-> "CustomVideo", url |-> url]

CustomMap(url) == [type |-> "CustomMap", url |-> url]

\* text.trim().is_empty()
IsBlank(text) == trim(text) = <<>>

\* HtmlNode::is_empty_text
is_empty_text(node) ==
    CASE node.type \in {"RichText", "Heading"} -> IsBlank(node.text)
      [] node.type = "CustomRuby" -> IsBlank(node.rb) /\ IsBlank(node.rt)
      [] OTHER -> FALSE

\* Iterator::next as a sequence of zero or one element
Take1(s) == IF s = <<>> THEN <<>> ELSE <<s[1]>>

RECURSIVE first_descendant(_, _)
\* element_ref.select(selector).next(): the first descendant with the tag, in
\* document order, as a sequence of zero or one element
first_descendant(el, tag) ==
    LET found(n) == IF n.k # "el" THEN <<>>
                    ELSE IF TagInfo[n.tok].tag = tag THEN <<n>>
                    ELSE first_descendant(n, tag)
    IN  Take1(Flatten([i \in 1..Len(el.kids) |-> found(el.kids[i])]))

\* Option<&str>::map(str::trim)
MapTrim(a) == IF a.some THEN Some(trim(a.v)) ELSE None

\* Option<&str>::and_then(|s| s.trim().parse().ok())
AndThenParse(a) == IF a.some THEN parse_i64(trim(a.v)) ELSE None

\* the text of an Option<ElementRef>, or the empty string
TextOrDefault(found) == IF found = <<>> THEN <<>> ELSE all_text(found[1])

\* the "custom-entry" arm of process_custom_element
custom_entry(el, id) ==
    IF id.some /\ id.v > 0
    THEN Some(CustomEntry(id.v, extract_plain_text(el),
                          Some(trim(UnwrapOrEmpty(attr(el, "desc")))),
                          trim(UnwrapOrEmpty(attr(el, "icon"))),
                          UnwrapOrZero(AndThenParse(attr(el, "amount"))),
                          trim(OrElse(attr(el, "displaystyle"), Some(<<"link">>)).v),
                          AndThenParse(attr(el, "menuid"))))
    ELSE None

\* the "custom-image" arm of process_custom_element
custom_image(el, url) ==
    IF url.some
    THEN Some(CustomImage(url.v, OrElse(get_alignment_attr(el), get_alignment_style(el))))
    ELSE None

\* the "custom-ruby" arm of process_custom_element
custom_ruby(rb, rt) == IF rb # <<>> /\ rt # <<>> THEN Some(CustomRuby(rb, rt)) ELSE None

\* the "custom-post" arm of process_custom_element
custom_post(el, id) ==
    IF id.some /\ id.v > 0 THEN Some(CustomPost(id.v, extract_plain_text(el), <<>>))
    ELSE None

\* the "custom-video" and "custom-map" arms of process_custom_element
custom_url(type, url) == IF url.some THEN Some([type |-> type, url |-> url.v]) ELSE None

\* the match of process_custom_element on the tag name
custom_element(el, tag) ==
    CASE tag = "custom-entry" ->
           custom_entry(el, parse_value_as_optional_i64(VStr(UnwrapOrEmpty(attr(el, "epid")))))
      [] tag = "custom-image" -> custom_image(el, FilterNonEmpty(MapTrim(attr(el, "url"))))
      [] tag = "custom-ruby" ->
           custom_ruby(normalize_whitespace(TextOrDefault(first_descendant(el, "rb"))),
                       normalize_whitespace(TextOrDefault(first_descendant(el, "rt"))))
      [] tag = "custom-post" ->
           custom_post(el, parse_value_as_optional_i64(VStr(UnwrapOrEmpty(attr(el, "postid")))))
      [] tag \in {"custom-video", "custom-map"} ->
           custom_url(IF tag = "custom-video" THEN "CustomVideo" ELSE "CustomMap",
                      FilterNonEmpty(MapTrim(attr(el, "url"))))
      [] OTHER -> None

process_custom_element(el) == custom_element(el, TagInfo[el.tok].tag)

RECURSIVE merge_absorb(_, _, _, _)
\* the inner loop of merge_consecutive_rich_text_nodes: the RichText nodes from
\* index j that are merged into text; [text, j: the first node not merged]
merge_absorb(ns, j, text, alignment) ==
    IF /\ j <= Len(ns)
       /\ ns[j].type = "RichText"
       /\ ns[j].alignment = alignment
       /\ ~IsBlank(ns[j].text)
    THEN merge_absorb(ns, j + 1,
                      (IF text # <<>> /\ Last(text) # "\n" THEN Append(text, "\n") ELSE text)
                          \o ns[j].text,
                      alignment)
    ELSE [text |-> text, j |-> j]

RECURSIVE merge_from(_, _), merge_push(_, _, _)
\* the outer loop of merge_consecutive_rich_text_nodes from index i
merge_from(ns, i) ==
    IF i > Len(ns) THEN <<>>
    ELSE IF ns[i].type = "RichText"
    THEN merge_push(ns, i, merge_absorb(ns, i + 1, ns[i].text, ns[i].alignment))
    ELSE <<ns[i]>> \o merge_from(ns, i + 1)

\* the push of the merged text r.text of node i, when it is not blank
merge_push(ns, i, r) ==
    (IF ~IsBlank(r.text) THEN <<RichText(r.text, ns[i].alignment)>> ELSE <<>>)
        \o merge_from(ns, r.j)

\* a merge that leaves the nodes as they are
merge_nothing(ns) == ns

merge_consecutive_rich_text_nodes(ns) == merge_from(ns, 1)

Max(a, b) == IF a >= b THEN a ELSE b

\* a depth test that never stops the descent
depth_never_exceeded(depth) == FALSE

\* depth > config::MAX_RECURSION_DEPTH
depth_exceeded(depth) == depth > MAX_RECURSION_DEPTH

\* ---- the element tree as the well-nested token sequence ----

\* open tags minus close tags among the tokens i..j
Balance(toks, i, j) ==
    Cardinality({n \in i..j : TagKind(toks[n]) = "open"})
        - Cardinality({n \in i..j : TagKind(toks[n]) = "close"})

\* the index of the close tag of the element whose start tag is token i (i
\* itself for an element without content)
ElementEnd(toks, i) ==
    LET closed == {j \in (i + 1)..Len(toks) : Balance(toks, i, j) = 0}
    IN  IF TagKind(toks[i]) # "open" THEN i
        ELSE IF closed = {} THEN Len(toks) + 1
        ELSE SetMin(closed)

\* the index after the text node that starts at token i
TextEnd(toks, i) ==
    IF \A j \in i..Len(toks) : ~IsTag(toks[j]) THEN Len(toks) + 1
    ELSE SetMin({j \in i..Len(toks) : IsTag(toks[j])})

\* the element whose start tag is token i, with its descendants
ElementAt(toks, i) ==
    Element(toks[i], IF TagKind(toks[i]) = "open" THEN parse_nodes(toks, i + 1).kids ELSE <<>>)

\* the element whose start tag is token i, for the reads of its own attributes
StartTag(toks, i) == Element(IF i = 0 THEN "<html>" ELSE toks[i], <<>>)

\* ---- the call stack of the descent ----

\* the activation of parse_element_recursive or process_nested_inline_children
\* on the element whose start tag is token el: its depth argument, its locals
\* (element_alignment, results) and the builder it works on (its own
\* current_rich_text_builder, or the caller's, borrowed for the call); end is
\* the index where the children of the element end
Frame(fn, el, end, depth, element_alignment, builder) ==
    [fn |-> fn, el |-> el, end |-> end, depth |-> depth,
     element_alignment |-> element_alignment, results |-> <<>>, builder |-> builder]

Top(m) == m.stack[Len(m.stack)]

\* the state of a descent: at, the index of the next child token; the call
\* stack; nodes, the result of the outermost call once it returned; deepest,
\* the greatest depth a call was made with
Descent(i, frames, result, depth) ==
    [at |-> i, stack |-> frames, nodes |-> result, deepest |-> depth]

\* the top activation goes on with frame f at token i
Continue(m, f, i) == [m EXCEPT !.stack[Len(m.stack)] = f, !.at = i]

\* the top activation, now frame f, calls fn on the element at token i
Call(toks, m, f, fn, i, element_alignment, builder) ==
    [m EXCEPT !.stack = Append([@ EXCEPT ![Len(m.stack)] = f],
                               Frame(fn, i, ElementEnd(toks, i), f.depth + 1,
                                     element_alignment, builder)),
              !.at = i + 1,
              !.deepest = Max(@, f.depth + 1)]

\* the children of the top activation's element are exhausted
Exhausted(m) == m.at >= Top(m).end

\* results.extend(builder.flush(..)); builder = RichTextBuilder::new();
\* results.extend(more)
flushed(f, more) ==
    [f EXCEPT !.results = @ \o flush(f.builder, f.element_alignment) \o more,
              !.builder = NewBuilder]

\* the node of the heading arm
heading_node(tag, text, align) ==
    IF text # <<>> THEN <<Heading(HeadingLevel(tag), text, align)>> ELSE <<>>

\* the node of the custom arm: an image without alignment takes the element's
custom_node(node, element_alignment) ==
    IF ~node.some THEN <<>>
    ELSE IF node.v.type = "CustomImage" /\ ~node.v.alignment.some
    THEN <<CustomImage(node.v.url, element_alignment)>>
    ELSE <<node.v>>

\* ---- parse_element_recursive ----

\* the match on the tag name of the child element at token i
parse_child_element(toks, m, f, i, tag) ==
    IF tag \in HTML_STRIP_TAGS THEN Continue(m, f, ElementEnd(toks, i) + 1)
    ELSE IF tag \in HEADING_TAGS
    THEN Continue(m,
                  flushed(f, heading_node(tag, extract_plain_text(ElementAt(toks, i)),
                                          OrElse(get_alignment_style(StartTag(toks, i)),
                                                 f.element_alignment))),
                  ElementEnd(toks, i) + 1)
    ELSE IF tag \in TARGET_HTML_CUSTOM_TAGS
    THEN Continue(m,
                  flushed(f, custom_node(custom_element(ElementAt(toks, i), tag),
                                         f.element_alignment)),
                  ElementEnd(toks, i) + 1)
    ELSE IF tag \in HTML_BLOCK_TAGS \/ tag = "li"
    THEN Call(toks, m, flushed(f, <<>>), "parse_element_recursive", i,
              get_alignment_style(StartTag(toks, i)), NewBuilder)
    ELSE IF tag \in {"br", "hr"}
    THEN Continue(m, [f EXCEPT !.builder = add_newline(@)], ElementEnd(toks, i) + 1)
    ELSE IF tag \in HTML_INLINE_TAGS
    THEN Call(toks, m, f, "process_nested_inline_children", i, None,
              push_color(f.builder, get_element_style_color_hex(StartTag(toks, i))))
    ELSE Call(toks, m, flushed(f, <<>>), "parse_element_recursive", i,
              get_alignment_style(StartTag(toks, i)), NewBuilder)

\* one turn of the loop over the children: the match on the child at token i
parse_child(toks, m, f, i) ==
    CASE TagKind(toks[i]) = "text" ->
           Continue(m, [f EXCEPT !.builder = add_text(@, SubSeq(toks, i, TextEnd(toks, i) - 1))],
                    TextEnd(toks, i))
      [] TagKind(toks[i]) \in {"open", "void"} ->
           parse_child_element(toks, m, f, i, TagInfo[toks[i]].tag)
      [] OTHER -> Continue(m, f, i + 1)

\* after the loop: the last flush, retain, merge
parse_finish(f) ==
    merge_consecutive_rich_text_nodes(
        SelectSeq(f.results \o flush(f.builder, f.element_alignment),
                  LAMBDA n : ~is_empty_text(n)))

\* the activation f returns ret: to the caller's results.extend, or, from the
\* outermost call, as the result
parse_returned(m, f, ret) ==
    IF Len(m.stack) = 1 THEN Descent(m.at, <<>>, ret, m.deepest)
    ELSE Descent(f.end + 1,
                 [SubSeq(m.stack, 1, Len(m.stack) - 1)
                     EXCEPT ![Len(m.stack) - 1].results = @ \o ret],
                 m.nodes, m.deepest)

\* the return at the depth limit
parse_element_recursive_limit(m) ==
    parse_returned(m, Top(m), <<RichText(HTML_DEPTH_SENTINEL, None)>>)

\* the return after the loop
parse_element_recursive_return(m) ==
    parse_returned(m, Top(m), parse_finish(Top(m)))

\* one turn of the loop
parse_element_recursive_child(toks, m) == parse_child(toks, m, Top(m), m.at)

\* ---- process_nested_inline_children ----

\* the arm of the custom tags and the arm of all other tags (ruby: None for
\* every other tag)
inline_custom(builder, child, ruby) ==
    IF ruby.some
    THEN [builder EXCEPT !.buffer = @ \o ruby.v.rb \o <<"(">> \o ruby.v.rt \o <<")">>,
                         !.needs_space = TRUE]
    ELSE add_text(builder, extract_plain_text(child))

\* the match on the tag name of the child element at token i
inline_child_element(toks, m, f, i, tag) ==
    IF tag \in HTML_STRIP_TAGS THEN Continue(m, f, ElementEnd(toks, i) + 1)
    ELSE IF tag \in {"br", "hr"}
    THEN Continue(m, [f EXCEPT !.builder = add_newline(@)], ElementEnd(toks, i) + 1)
    ELSE IF tag \in HTML_INLINE_TAGS
    THEN Call(toks, m, f, "process_nested_inline_children", i, None,
              push_color(f.builder, get_element_style_color_hex(StartTag(toks, i))))
    ELSE Continue(m,
                  [f EXCEPT !.builder =
                      inline_custom(@, ElementAt(toks, i),
                                    IF tag = "custom-ruby"
                                    THEN custom_element(ElementAt(toks, i), tag)
                                    ELSE None)],
                  ElementEnd(toks, i) + 1)

\* one turn of the loop over the children: the match on the child at token i
inline_child(toks, m, f, i) ==
    CASE TagKind(toks[i]) = "text" ->
           Continue(m, [f EXCEPT !.builder = add_text(@, SubSeq(toks, i, TextEnd(toks, i) - 1))],
                    TextEnd(toks, i))
      [] TagKind(toks[i]) \in {"open", "void"} ->
           inline_child_element(toks, m, f, i, TagInfo[toks[i]].tag)
      [] OTHER -> Continue(m, f, i + 1)

\* the activation f returns with the builder; the caller goes on with
\* builder.pop_color()
inline_returned(m, f, builder) ==
    Descent(f.end + 1,
            [SubSeq(m.stack, 1, Len(m.stack) - 1)
                EXCEPT ![Len(m.stack) - 1].builder = pop_color(builder)],
            m.nodes, m.deepest)

\* the return at the depth limit
process_nested_inline_children_limit(m) ==
    inline_returned(m, Top(m), add_text(Top(m).builder, INLINE_DEPTH_SENTINEL))

\* the return after the loop
process_nested_inline_children_return(m) ==
    inline_returned(m, Top(m), Top(m).builder)

\* one turn of the loop
process_nested_inline_children_child(toks, m) == inline_child(toks, m, Top(m), m.at)

\* ---- parse_html_content ----

\* the next step of the innermost activation
descent_step(toks, m) ==
    IF Top(m).fn = "parse_element_recursive"
    THEN IF depth_exceeded(Top(m).depth) THEN parse_element_recursive_limit(m)
         ELSE IF Exhausted(m) THEN parse_element_recursive_return(m)
         ELSE parse_element_recursive_child(toks, m)
    ELSE IF depth_exceeded(Top(m).depth) THEN process_nested_inline_children_limit(m)
         ELSE IF Exhausted(m) THEN process_nested_inline_children_return(m)
         ELSE process_nested_inline_children_child(toks, m)

RECURSIVE descend(_, _)
\* the descent from m until the outermost call returned
descend(toks, m) == IF m.stack = <<>> THEN m ELSE descend(toks, descent_step(toks, m))

RECURSIVE clean_consecutive_slashes(_)
\* while cleaned.contains("//") { cleaned = cleaned.replace("//", "/") }: one
\* slash of the first pair goes, until no pair is left
clean_consecutive_slashes(text) ==
    LET drop(i) ==
          clean_consecutive_slashes(SubSeq(text, 1, i) \o SubSeq(text, i + 2, Len(text)))
    IN  IF \A i \in 1..(Len(text) - 1) : ~(text[i] = "/" /\ text[i + 1] = "/") THEN text
        ELSE drop(SetMin({i \in 1..(Len(text) - 1) : text[i] = "/" /\ text[i + 1] = "/"}))

\* the tokens of Html::parse_fragment(&cleaned_html)
cleaned_html(html_string) == clean_consecutive_slashes(trim(html_string))

\* parse_element_recursive(fragment.root_element(), 0, ..) about to run
root_call(toks) ==
    Descent(1, <<Frame("parse_element_recursive", 0, Len(toks) + 1, 0,
                       get_alignment_style(StartTag(toks, 0)), NewBuilder)>>,
            <<>>, 0)

\* parse_html_content up to the outermost call: nothing to parse in an empty
\* string
parse_html_begin(html_string) ==
    IF trim(html_string) = <<>> THEN Descent(1, <<>>, <<>>, 0)
    ELSE root_call(cleaned_html(html_string))

\* parse_html_content, with the depth instrumentation of the descent
parse_html_descent(html_string) ==
    descend(cleaned_html(html_string), parse_html_begin(html_string))

parse_html_content(html_string) == parse_html_descent(html_string).nodes

\* post_process_html_nodes: names and icons of the references from the store
post_process_html_nodes(ns, store) ==
    [i \in 1..Len(ns) |->
        CASE ns[i].type = "CustomEntry" ->
               [ns[i] EXCEPT !.name = UnwrapOrEmpty(get_name(store, ns[i].ep_id)),
                             !.desc = OrElse(get_desc(store, ns[i].ep_id), ns[i].desc),
                             !.icon_url = UnwrapOrEmpty(get_icon(store, ns[i].ep_id))]
          [] ns[i].type = "CustomPost" ->
               [ns[i] EXCEPT !.name = UnwrapOrEmpty(get_name(store, ns[i].post_id)),
                             !.icon_url = UnwrapOrEmpty(get_icon(store, ns[i].post_id))]
          [] OTHER -> ns[i]]

\* ------------------------------------------------------------------------
\* The sentinel-JSON extractor (transform/detail.rs)
\* ------------------------------------------------------------------------

\* the first of the keys that the map holds (Map::get(k1).or_else(|| get(k2))...)
GetFirst(m, keys) ==
    IF \A i \in 1..Len(keys) : keys[i] \notin DOMAIN m THEN None
    ELSE Some(m[keys[SetMin({i \in 1..Len(keys) : keys[i] \in DOMAIN m})]])

\* Option<&Value>::and_then(Value::as_str)
AndThenStr(o) == IF o.some THEN as_str(o.v) ELSE None

\* Option<&Value>::and_then(Value::as_i64)
AndThenI64(o) == IF o.some THEN as_i64(o.v) ELSE None

\* Option<&Value>::and_then(parse_value_as_optional_i64)
AndThenParseI64(o) == IF o.some THEN parse_value_as_optional_i64(o.v) ELSE None

\* the ep_id of a material object, when process_material_list accepts it
material_ep_id(mat_map) == AndThenParseI64(MapGet(mat_map, "ep_id"))

\* the tests of process_material_list: an ep_id that parses to a positive i64
material_accepted(mat_map) ==
    LET positive(ep_id) == ep_id.some /\ ep_id.v > 0
    IN  positive(material_ep_id(mat_map))

\* a variant of material_node in which the fields of the object come before
\* the store
material_node_own_first(mat_map, store) ==
    LET node(ep_id) ==
          CustomEntry(
              ep_id,
              UnwrapOrEmpty(OrElse(AndThenStr(GetFirst(mat_map, <<"name", "nickname">>)),
                                   FilterNonEmpty(get_name(store, ep_id)))),
              OrElse(AndThenStr(MapGet(mat_map, "desc")), get_desc(store, ep_id)),
              UnwrapOrEmpty(OrElse(AndThenStr(GetFirst(mat_map,
                                                       <<"icon", "icon_url", "img">>)),
                                   FilterNonEmpty(get_icon(store, ep_id)))),
              UnwrapOrZero(AndThenI64(MapGet(mat_map, "amount"))),
              OrElse(AndThenStr(MapGet(mat_map, "display_style")),
                     Some(default_display_style)).v,
              AndThenParseI64(MapGet(mat_map, "menu_id")))
    IN  node(material_ep_id(mat_map).v)

\* the CustomEntry node process_material_list builds from an accepted object
material_node(mat_map, store) ==
    LET node(ep_id) ==
          CustomEntry(
              ep_id,
              UnwrapOrEmpty(OrElse(FilterNonEmpty(get_name(store, ep_id)),
                                   AndThenStr(GetFirst(mat_map, <<"name", "nickname">>)))),
              OrElse(get_desc(store, ep_id), AndThenStr(MapGet(mat_map, "desc"))),
              UnwrapOrEmpty(OrElse(FilterNonEmpty(get_icon(store, ep_id)),
                                   AndThenStr(GetFirst(mat_map,
                                                       <<"icon", "icon_url", "img">>)))),
              UnwrapOrZero(AndThenI64(MapGet(mat_map, "amount"))),
              OrElse(AndThenStr(MapGet(mat_map, "display_style")),
                     Some(default_display_style)).v,
              AndThenParseI64(MapGet(mat_map, "menu_id")))
    IN  node(material_ep_id(mat_map).v)

RECURSIVE process_material_list_no_amount(_, _)
\* a variant of process_material_list that forgets the amount
process_material_list_no_amount(material_list, store) ==
    IF material_list = <<>> THEN <<>>
    ELSE (IF material_accepted(Head(material_list))
          THEN <<[material_node(Head(material_list), store) EXCEPT !.amount = 0]>>
          ELSE <<>>)
         \o process_material_list_no_amount(Tail(material_list), store)

RECURSIVE process_material_list(_, _)
process_material_list(material_list, store) ==
    IF material_list = <<>> THEN <<>>
    ELSE (IF material_accepted(Head(material_list))
          THEN <<material_node(Head(material_list), store)>>
          ELSE <<>>)
         \o process_material_list(Tail(material_list), store)

\* the two from_str attempts on the inside of a sentinel string:
\* ok: one of them parsed; list: the maps it gave
sentinel_maps(inner_json_str) ==
    LET second(as_map) ==
          IF as_map.some THEN [ok |-> TRUE, list |-> <<as_map.v>>]
          ELSE [ok |-> FALSE, list |-> <<>>]
        first(as_vec) ==
          IF as_vec.some THEN [ok |-> TRUE, list |-> as_vec.v]
          ELSE second(from_str_map(inner_json_str))
    IN  IF inner_json_str = <<>> THEN [ok |-> FALSE, list |-> <<>>]
        ELSE first(from_str_vec_map(inner_json_str))

RECURSIVE materials_from_array(_, _, _)
\* the Value::Array arm of parse_materials_value: the loop over the elements
\* from index i; acc = [list, parsed: successfully_parsed_from_array,
\* processed: processed_value]
materials_from_array(arr, i, acc) ==
    LET sentinel(r) ==
          [list |-> acc.list \o r.list, parsed |-> acc.parsed \/ r.ok, processed |-> TRUE]
        string(trimmed_inner) ==
          IF IsSentinel(trimmed_inner)
          THEN sentinel(sentinel_maps(SentinelInner(trimmed_inner)))
          ELSE acc
        item(item_val) ==
          IF item_val.t = "str" THEN string(trim(item_val.s))
          ELSE IF item_val.t = "obj" /\ "ep_id" \in DOMAIN item_val.o
          THEN [list |-> Append(acc.list, item_val.o), parsed |-> TRUE,
                processed |-> TRUE]
          ELSE acc
    IN  IF i > Len(arr) THEN acc
        ELSE materials_from_array(arr, i + 1, item(arr[i]))

\* the first match of parse_materials_value: [list: material_list,
\* processed: processed_value]
materials_first_pass(val) ==
    LET string(trimmed) ==
          IF IsSentinel(trimmed)
          THEN [list |-> sentinel_maps(SentinelInner(trimmed)).list, processed |-> TRUE]
          ELSE [list |-> <<>>, processed |-> FALSE]
        array(r) == [list |-> r.list, processed |-> r.processed /\ r.parsed]
    IN  CASE val.t = "str" -> string(trim(val.s))
          [] val.t = "arr" ->
               array(materials_from_array(val.a, 1,
                        [list |-> <<>>, parsed |-> FALSE, processed |-> FALSE]))
          [] val.t = "obj" ->
               IF "ep_id" \in DOMAIN val.o
               THEN [list |-> <<val.o>>, processed |-> TRUE]
               ELSE [list |-> <<>>, processed |-> FALSE]
          [] OTHER -> [list |-> <<>>, processed |-> TRUE]

\* the from_value fallback of parse_materials_value
materials_fallback(val) ==
    IF from_value_vec_map(val).some THEN from_value_vec_map(val).v
    ELSE IF from_value_map(val).some /\ "ep_id" \in DOMAIN from_value_map(val).v
    THEN <<from_value_map(val).v>>
    ELSE <<>>

parse_materials_value(val, store) ==
    LET process(material_list) ==
          IF material_list = <<>> THEN <<>> ELSE process_material_list(material_list, store)
        fallback(first) ==
          IF ~first.processed /\ first.list = <<>>
          THEN process(materials_fallback(val))
          ELSE process(first.list)
    IN  fallback(materials_first_pass(val))

RECURSIVE parse_value_to_html_nodes(_, _)
\* parse_value_to_html_nodes; a panic of the blocking parse task is an outcome
\* of the component decode task, not of this function
parse_value_to_html_nodes(val, store) ==
    LET string(trimmed) ==
          IF IsSentinel(trimmed) THEN parse_materials_value(val, store)
          ELSE IF trimmed = <<>> THEN <<>>
          ELSE IF ContainsAngleBrackets(trimmed)
          THEN post_process_html_nodes(parse_html_content(trimmed), store)
          ELSE <<RichText(trimmed, None)>>
    IN  CASE val.t = "str" -> string(trim(val.s))
          [] val.t = "arr" ->
               Flatten([i \in 1..Len(val.a) |-> parse_value_to_html_nodes(val.a[i], store)])
          [] OTHER -> <<>>

\* ------------------------------------------------------------------------
\* SpecMat: the extractor applied to bounded field values
\* ------------------------------------------------------------------------

\* the greatest number of objects in the array inside a sentinel
MaxMats == 2

\* one material object of an input: the lexeme of its ep_id and of its amount
MatObjects == [id : {"none", "7", "0", "\"7\""}, amount : {"none", "3", "\"3\""}]

\* the JSON text of a material object
ObjToks(m) ==
    LET id == IF m.id = "none" THEN <<>> ELSE <<"\"ep_id\"", ":", m.id>>
        amount == IF m.amount = "none" THEN <<>> ELSE <<"\"amount\"", ":", m.amount>>
        sep == IF id # <<>> /\ amount # <<>> THEN <<",">> ELSE <<>>
    IN  <<"{">> \o id \o sep \o amount \o <<"}">>

RECURSIVE JoinToks(_)
\* the texts of a sequence joined by commas
JoinToks(ts) ==
    IF ts = <<>> THEN <<>>
    ELSE IF Len(ts) = 1 THEN ts[1]
    ELSE ts[1] \o <<",">> \o JoinToks(Tail(ts))

\* the JSON text of an array of material objects
ArrToks(ms) == <<"[">> \o JoinToks([i \in 1..Len(ms) |-> ObjToks(ms[i])]) \o <<"]">>

\* the JSON texts that stand inside a sentinel: one object, an array of up to
\* MaxMats objects, a float, a truncated object, nothing
InnerTexts ==
    {ObjToks(m) : m \in MatObjects}
    \cup {ArrToks(ms) : ms \in UNION {[1..n -> MatObjects] : n \in 0..MaxMats}}
    \cup {<<"1.5">>, <<"{", "\"ep_id\"", ":">>, <<>>, <<" ">>}

\* "$[" inner "]$"
Sentinel(inner) == <<"$", "[">> \o inner \o <<"]", "$">>

\* {"ep_id":7,"name":"x","icon":"o.png","desc":"d"}: an object with a name, an
\* icon and a description of its own
OwnObject ==
    <<"{", "\"ep_id\"", ":", "7", ",", "\"name\"", ":", "\"x\"", ",",
      "\"icon\"", ":", "\"o.png\"", ",", "\"desc\"", ":", "\"d\"", "}">>

\* {"ep_id":7,"nickname":"x"}: an object with a nickname only
NickObject == <<"{", "\"ep_id\"", ":", "7", ",", "\"nickname\"", ":", "\"x\"", "}">>

\* a custom-entry tag with an inline text and an icon of its own
EntryTag == <<"<custom-entry epid=\"7\" icon=\"t.png\" amount=\"2\">", "a", "</custom-entry>">>

\* a custom-post tag with an inline text
PostTag == <<"<custom-post postid=\"3\">", "a", "</custom-post>">>

MatStrings ==
    {Sentinel(t) : t \in InnerTexts}
    \cup {<<" ">> \o Sentinel(<<" ">> \o t \o <<"\n">>) \o <<NBSP>> : t \in InnerTexts}
    \cup InnerTexts
    \cup {<<"I", "r", "o", "n">>, <<"<b>", "a", "</b>">>, EntryTag, PostTag}
    \cup {Sentinel(OwnObject), Sentinel(NickObject)}

\* the values of the inputs: strings, arrays of one or two strings, and the
\* values that are material objects and arrays of them themselves
MatValues ==
    {VStr(s) : s \in MatStrings}
    \cup {VArr(<<VStr(s)>>) : s \in MatStrings}
    \cup {VArr(<<VStr(s), VStr(Sentinel(ObjToks([id |-> "0", amount |-> "3"])))>>) :
            s \in MatStrings}
    \cup {from_str(t).v : t \in {u \in InnerTexts : from_str(u).some}}
    \cup {VNull, VBool(TRUE), VArr(<<VNum(7)>>)}

MatStores ==
    {EmptyStore,
     [id \in {7} |-> BulkInfo(Some(<<"Iron">>), None, Some(<<"i.png">>))],
     [id \in {7} |-> BulkInfo(Some(<<"Iron">>), Some(<<"About">>), None)]}

InitMat ==
    /\ pc = "start"
    /\ value \in MatValues
    /\ via \in {"parse_materials_value", "parse_value_to_html_nodes"}
    /\ bulk_store \in MatStores
    /\ nodes = <<>>
    /\ html = <<>>
    /\ fragment = <<>>
    /\ at = 1
    /\ stack = <<>>
    /\ deepest = 0
    /\ rich_text_builder = NewBuilder
    /\ calls = 0
    /\ primary_bulk = NoPages
    /\ fallback_map = <<>>
    /\ all_ids_for_primary_lang = {}
    /\ raw_page = <<>>
    /\ component_tasks = <<>>
    /\ final_components = <<>>
    /\ arrival = <<>>
    /\ output = None
    /\ warnings = <<>>
    /\ raw_items = <<>>
    /\ list_file = None
    /\ collected = {}
    /\ IdleRest

\* a caller hands the value to parse_materials_value
ExtractMaterials ==
    /\ pc = "start"
    /\ via = "parse_materials_value"
    /\ nodes' = parse_materials_value(value, bulk_store)
    /\ pc' = "done"
    /\ UNCHANGED <<matVars, html, descentVars, builderVars, bulkVars, pageVars, listVars, restVars>>

\* a caller hands the value to parse_value_to_html_nodes
ExtractHtmlNodes ==
    /\ pc = "start"
    /\ via = "parse_value_to_html_nodes"
    /\ nodes' = parse_value_to_html_nodes(value, bulk_store)
    /\ pc' = "done"
    /\ UNCHANGED <<matVars, html, descentVars, builderVars, bulkVars, pageVars, listVars, restVars>>

NextMat == ExtractMaterials \/ ExtractHtmlNodes

SpecMat == InitMat /\ [][NextMat]_vars

\* the sentinel string $[{"ep_id":7,"amount":3}]$
ClaimedSentinel == Sentinel(ObjToks([id |-> "7", amount |-> "3"]))

\* C1: for the sentinel string $[{"ep_id":7,"amount":3}]$, and for the array
\* whose single element is that string, extraction through either entry point
\* and with any store yields exactly one node, a CustomEntry with entry id 7
\* and amount 3.
C1_OneEntrySevenThree ==
    (pc = "done" /\ value \in {VStr(ClaimedSentinel), VArr(<<VStr(ClaimedSentinel)>>)})
        => /\ Len(nodes) = 1
           /\ nodes[1].type = "CustomEntry"
           /\ nodes[1].ep_id = 7
           /\ nodes[1].amount = 3

\* the array of the one sentinel string went through parse_value_to_html_nodes
\* and came back as an entry
C1_Witness ==
    /\ pc = "done"
    /\ value = VArr(<<VStr(ClaimedSentinel)>>)
    /\ via = "parse_value_to_html_nodes"
    /\ Len(nodes) = 1
    /\ nodes[1].type = "CustomEntry"

\* ------------------------------------------------------------------------
\* SpecHtml: parse_html_content on bounded markup
\* ------------------------------------------------------------------------

MaxItems == 2

MaxChain == 17

ChainSpan == 3

\* well-nested pieces of markup
Items ==
    { <<"a">>,
      <<" ">>,
      <<"<br>">>,
      <<"<span style=\"color:#FF0000\">", "a", "</span>">>,
      <<"<span style=\"color:#ff0000\">", "b", "</span>">>,
      <<"<span style=\"color:#00ff00\">", NBSP, "</span>">>,
      <<"<h1>", NBSP, "</h1>">>,
      <<"<h2 style=\"text-align:left\">", "a", "\n", "b", "</h2>">>,
      <<"<div style=\"text-align:center\">", NBSP, "b", "</div>">>,
      <<"<custom-entry epid=\"7\" icon=\"t.png\" amount=\"2\">", "a", "</custom-entry>">>,
      <<"<custom-ruby>", "<rb>", NBSP, "</rb>", "<rt>", " ", "</rt>", "</custom-ruby>">>,
      <<"<script>", "a", "</script>">> }

\* the element that may enclose the pieces; <<>> for none
Wrappers ==
    { <<>>, <<"<p style=\"text-align: right\">", "</p>">>, <<"<b>", "</b>">>,
      <<"<span style=\"color:#00ff00\">", "</span>">> }

Wrapped(w, toks) == IF w = <<>> THEN toks ELSE <<w[1]>> \o toks \o <<w[2]>>

ItemInputs ==
    { Wrapped(w, Flatten(items)) :
        w \in Wrappers, items \in UNION {[1..n -> Items] : n \in 0..MaxItems} }

\* nb nested <div>, below them ni nested <span> around the text y, and for
\* k > 0 the text x directly in the div of level k
ChainToks(nb, ni, k) ==
    LET plain == [i \in 1..(2 * (nb + ni) + 1) |->
                    CASE i <= nb -> "<div>"
                      [] i > nb /\ i <= nb + ni -> "<span>"
                      [] i = nb + ni + 1 -> "y"
                      [] i > nb + ni + 1 /\ i <= nb + 2 * ni + 1 -> "</span>"
                      [] OTHER -> "</div>"]
    IN  IF k = 0 THEN plain
        ELSE SubSeq(plain, 1, k) \o <<"x">> \o SubSeq(plain, k + 1, Len(plain))

\* the chains of MaxChain - ChainSpan to MaxChain elements, with the text x
\* nowhere, in the first block, in the last block within the depth limit or
\* in the last block
ChainInputs ==
    UNION { UNION { { ChainToks(nb, n - nb, k) :
                        k \in {0, 1, MAX_RECURSION_DEPTH, nb} \cap (0..nb) } : nb \in 0..n } :
              n \in (MaxChain - ChainSpan)..MaxChain }

\* a heading in a <div> without alignment, itself in up to two <div> of which
\* the outermost is centered; a heading right in the centered <div>; a
\* heading with an alignment of its own two <div> below the centered one
AlignInputs ==
    { <<"<div style=\"text-align:center\">", "<h1>", "a", "</h1>", "</div>">>,
      <<"<div style=\"text-align:center\">", "<div>", "<h1>", "a", "</h1>", "</div>", "</div>">>,
      <<"<div style=\"text-align:center\">", "<div>", "<div>", "<h1>", "a", "</h1>",
        "</div>", "</div>", "</div>">>,
      <<"<div style=\"text-align:center\">", "<div>",
        "<h2 style=\"text-align:left\">", "a", "</h2>", "</div>", "</div>">>,
      <<"<div>", "<h1>", "a", "</h1>", "</div>">> }

\* a red <span> with a text, a <b> with a text and a text after the <b>, and a
\* text after the <span>; a green <span> in a <b> in a red <span>, a text
\* after the green <span>; a <span> whose color does not parse in a red <span>
ColorInputs ==
    { <<"<span style=\"color:#ff0000\">", "a", "<b>", "c", "</b>", "d", "</span>", "e">>,
      <<"<span style=\"color:#ff0000\">", "<b>", "<span style=\"color:#00ff00\">", "x",
        "</span>", "y", "</b>", "</span>">>,
      <<"<span style=\"color:#ff0000\">", "<span style=\"color:bogus\">", "z", "</span>",
        "</span>">> }

\* the kinds of inline content, each with what the builder writes for it: a
\* plain text, a colored text, a custom-ruby
Pieces ==
    { [toks |-> <<"a">>, run |-> <<"a">>],
      [toks |-> <<"<span style=\"color:#ff0000\">", "b", "</span>">>,
       run |-> <<"<color=#ff0000>", "b", "</color>">>],
      [toks |-> <<"<custom-ruby>", "<rb>", "x", "</rb>", "<rt>", "y", "</rt>", "</custom-ruby>">>,
       run |-> <<"x", "(", "y", ")">>] }

\* two pieces in a <span>, a space between them
Spaced(p1, p2) == <<"<span>">> \o p1.toks \o <<" ">> \o p2.toks \o <<"</span>">>

SpaceInputs == {Spaced(p1, p2) : p1, p2 \in Pieces}

\* texts around a <div> with a text; texts of two alignments in a row; texts
\* around a custom-entry
MergeInputs ==
    { <<"a", "<div>", "b", "</div>", "c">>,
      <<"a", "<div style=\"text-align:center\">", "b", "</div>",
        "<div style=\"text-align:center\">", "c", "</div>", "<div>", "d", "</div>">>,
      <<"a", "<custom-entry epid=\"7\" icon=\"t.png\" amount=\"2\">", "x", "</custom-entry>",
        "b", "<div>", "c", "</div>">> }

HtmlInputs ==
    ItemInputs \cup ChainInputs \cup AlignInputs \cup ColorInputs \cup SpaceInputs
        \cup MergeInputs

InitHtml ==
    /\ pc = "start"
    /\ html \in HtmlInputs
    /\ value = VNull
    /\ via = "parse_html_content"
    /\ bulk_store = EmptyStore
    /\ nodes = <<>>
    /\ fragment = <<>>
    /\ at = 1
    /\ stack = <<>>
    /\ deepest = 0
    /\ rich_text_builder = NewBuilder
    /\ calls = 0
    /\ primary_bulk = NoPages
    /\ fallback_map = <<>>
    /\ all_ids_for_primary_lang = {}
    /\ raw_page = <<>>
    /\ component_tasks = <<>>
    /\ final_components = <<>>
    /\ arrival = <<>>
    /\ output = None
    /\ warnings = <<>>
    /\ raw_items = <<>>
    /\ list_file = None
    /\ collected = {}
    /\ IdleRest

\* the descent as the variables hold it
Running == Descent(at, stack, nodes, deepest)

\* the descent m becomes the state; the parser is done when the outermost call
\* returned
Becomes(m) ==
    /\ at' = m.at
    /\ stack' = m.stack
    /\ nodes' = m.nodes
    /\ deepest' = m.deepest
    /\ pc' = IF m.stack = <<>> THEN "done" ELSE "descent"
    /\ UNCHANGED <<matVars, html, builderVars, bulkVars, pageVars, listVars, restVars>>

\* the descent m of the fragment toks becomes the state
Begins(toks, m) == fragment' = toks /\ Becomes(m)

\* the descent m of the same fragment becomes the state
Goes(m) == UNCHANGED fragment /\ Becomes(m)

\* the innermost activation is one of fn
InCall(fn) == pc = "descent" /\ stack # <<>> /\ Top(Running).fn = fn

\* parse_html_content(html) up to the outermost call of parse_element_recursive
ParseHtmlContent ==
    /\ pc = "start"
    /\ via = "parse_html_content"
    /\ Begins(cleaned_html(html), parse_html_begin(html))

\* parse_element_recursive at the depth limit
BlockDepthLimit ==
    /\ InCall("parse_element_recursive")
    /\ depth_exceeded(Top(Running).depth)
    /\ Goes(parse_element_recursive_limit(Running))

\* parse_element_recursive: one child
BlockChild ==
    /\ InCall("parse_element_recursive")
    /\ ~depth_exceeded(Top(Running).depth)
    /\ ~Exhausted(Running)
    /\ Goes(parse_element_recursive_child(fragment, Running))

\* parse_element_recursive: after the last child
BlockReturn ==
    /\ InCall("parse_element_recursive")
    /\ ~depth_exceeded(Top(Running).depth)
    /\ Exhausted(Running)
    /\ Goes(parse_element_recursive_return(Running))

\* process_nested_inline_children at the depth limit
InlineDepthLimit ==
    /\ InCall("process_nested_inline_children")
    /\ depth_exceeded(Top(Running).depth)
    /\ Goes(process_nested_inline_children_limit(Running))

\* process_nested_inline_children: one child
InlineChild ==
    /\ InCall("process_nested_inline_children")
    /\ ~depth_exceeded(Top(Running).depth)
    /\ ~Exhausted(Running)
    /\ Goes(process_nested_inline_children_child(fragment, Running))

\* process_nested_inline_children: after the last child
InlineReturn ==
    /\ InCall("process_nested_inline_children")
    /\ ~depth_exceeded(Top(Running).depth)
    /\ Exhausted(Running)
    /\ Goes(process_nested_inline_children_return(Running))

NextHtml ==
    \/ ParseHtmlContent
    \/ BlockDepthLimit
    \/ BlockChild
    \/ BlockReturn
    \/ InlineDepthLimit
    \/ InlineChild
    \/ InlineReturn

SpecHtml == InitHtml /\ [][NextHtml]_vars

\* the markup <span style="color:#FF0000">a</span><span style="color:#ff0000">b</span>
AdjacentSpans ==
    <<"<span style=\"color:#FF0000\">", "a", "</span>",
      "<span style=\"color:#ff0000\">", "b", "</span>">>

\* C2: two adjacent spans of the same color (up to the case of the hex
\* letters) with the texts a and b parse to exactly one RichText node with the
\* text <color=#ff0000>a b</color>: one wrapper around both texts, one space
\* between them.
C2_AdjacentSpansMerge ==
    (pc = "done" /\ html = AdjacentSpans)
        => nodes = <<RichText(<<"<color=#ff0000>", "a", " ", "b", "</color>">>, None)>>

\* what the parse of the two spans returns: each text in a wrapper of its own
C2_TwoWrappers ==
    /\ pc = "done"
    /\ html = AdjacentSpans
    /\ nodes = <<RichText(<<"<color=#ff0000>", "a", "</color>", " ",
                            "<color=#ff0000>", "b", "</color>">>, None)>>

\* how often the token tok occurs in the texts of the RichText nodes
Occurrences(ns, tok) ==
    Cardinality({<<i, j>> \in (1..Len(ns)) \X (1..(MaxChain + 8)) :
                    /\ ns[i].type = "RichText"
                    /\ j <= Len(ns[i].text)
                    /\ ns[i].text[j] = tok})

\* how often the token tok occurs in the markup
Count(tok) == Cardinality({i \in 1..Len(html) : html[i] = tok})

\* the level of the block that holds the text x directly; 0 without such a text
LevelOfX == IF Count("x") = 0 THEN 0 ELSE (CHOOSE i \in 1..Len(html) : html[i] = "x") - 1

\* the markup is a chain: nested blocks, nested spans below them
IsChain == html = ChainToks(Count("<div>"), Count("<span>"), LevelOfX)

\* the markup is a chain of more than MAX_RECURSION_DEPTH blocks
DeepBlockChain == Count("<div>") > MAX_RECURSION_DEPTH /\ IsChain

\* the steps left to a descent are bounded by this number
DescentMeasure == 2 * (Len(fragment) + 2 - at) + Len(stack)

\* C7: the parse of a chain of blocks nested deeper than MAX_RECURSION_DEPTH
\* terminates (every step of the descent lowers a natural number, and a descent
\* that has not returned has a next step), no call is ever made deeper than the
\* first level beyond the limit, and the result holds the sentinel exactly once
\* and nothing from below the truncation point; when no text stands above that
\* point the result is the sentinel RichText node alone.
C7_DepthGuard ==
    /\ [](/\ deepest <= MAX_RECURSION_DEPTH + 1
          /\ \A n \in 1..Len(stack) : stack[n].depth = n - 1
          /\ Len(stack) <= MAX_RECURSION_DEPTH + 2
          /\ pc = "descent" => (stack # <<>> /\ DescentMeasure > 0)
          /\ (pc = "done" /\ DeepBlockChain)
                => /\ deepest = MAX_RECURSION_DEPTH + 1
                   /\ Occurrences(nodes, HTML_DEPTH_SENTINEL[1]) = 1
                   /\ Occurrences(nodes, "y") = 0
                   /\ \A i \in 1..Len(nodes) : nodes[i].type = "RichText"
          /\ (pc = "done" /\ DeepBlockChain /\ LevelOfX \notin 1..MAX_RECURSION_DEPTH)
                => nodes = <<RichText(HTML_DEPTH_SENTINEL, None)>>)
    /\ [][pc = "descent" => DescentMeasure' < DescentMeasure]_vars

\* a chain of MaxChain blocks around the text y was parsed: the sentinel stands
\* where level MAX_RECURSION_DEPTH + 1 was
C7_Witness ==
    /\ pc = "done"
    /\ html = ChainToks(MaxChain, 0, 0)
    /\ deepest = MAX_RECURSION_DEPTH + 1
    /\ nodes = <<RichText(HTML_DEPTH_SENTINEL, None)>>

\* C8: every RichText node and every Heading node that parse_html_content
\* returns has a text with a character that is not whitespace.
C8_NoBlankText ==
    pc = "done" =>
        \A i \in 1..Len(nodes) :
            nodes[i].type \in {"RichText", "Heading"} =>
                \E j \in 1..Len(nodes[i].text) : nodes[i].text[j] \notin WhiteSpaceChars

\* a heading of a no-break space only, followed by a heading with a text, was
\* parsed: the result is the one Heading
C8_Witness ==
    /\ pc = "done"
    /\ html = <<"<h1>", NBSP, "</h1>", "<h2 style=\"text-align:left\">", "a", "\n", "b", "</h2>">>
    /\ nodes = <<Heading(2, <<"a", " ", "b">>, Some(<<"left">>))>>

\* ------------------------------------------------------------------------
\* SpecFlush: a RichTextBuilder is filled by its methods and flushed
\* ------------------------------------------------------------------------

MaxCalls == 3

\* the texts handed to add_text: characters, and color markers that stand in
\* the text itself
Texts ==
    { <<"a">>, <<" ">>,
      <<"<color=#ff0000>">>, <<"</color>">>,
      <<"<color=#ff0000>", " ", "</color>">>,
      <<"<color=#ff0000>", "</color>">>,
      <<"a", "</color>", "<color=#ff0000>", "b">>,
      <<"a", "</color>", "<color=#FF0000>", " ", "</color>">> }

Colors == {None, Some("ff0000"), Some("00ff00")}

InitFlush ==
    /\ pc = "fill"
    /\ rich_text_builder = NewBuilder
    /\ calls = 0
    /\ primary_bulk = NoPages
    /\ fallback_map = <<>>
    /\ all_ids_for_primary_lang = {}
    /\ raw_page = <<>>
    /\ component_tasks = <<>>
    /\ final_components = <<>>
    /\ arrival = <<>>
    /\ output = None
    /\ warnings = <<>>
    /\ raw_items = <<>>
    /\ list_file = None
    /\ collected = {}
    /\ IdleRest
    /\ nodes = <<>>
    /\ value = VNull
    /\ via = "flush"
    /\ bulk_store = EmptyStore
    /\ html = <<>>
    /\ fragment = <<>>
    /\ at = 1
    /\ stack = <<>>
    /\ deepest = 0

\* one more call on the builder that is being filled
Filled(b) ==
    /\ pc = "fill"
    /\ calls < MaxCalls
    /\ rich_text_builder' = b
    /\ calls' = calls + 1
    /\ UNCHANGED <<pc, nodes, matVars, html, descentVars, bulkVars, pageVars, listVars, restVars>>

AddText == \E text \in Texts : Filled(add_text(rich_text_builder, text))

AddNewline == Filled(add_newline(rich_text_builder))

PushColor == \E new_color_hex \in Colors : Filled(push_color(rich_text_builder, new_color_hex))

PopColor == Filled(pop_color(rich_text_builder))

\* flush is called: the loop is entered
Flush ==
    /\ pc = "fill"
    /\ pc' = "loop"
    /\ UNCHANGED <<nodes, matVars, html, descentVars, builderVars, bulkVars, pageVars, listVars, restVars>>

\* one turn of the loop of flush: both passes, then the test of the length
FlushPass ==
    /\ pc = "loop"
    /\ rich_text_builder' = [rich_text_builder EXCEPT !.buffer = flush_iteration(@)]
    /\ pc' = IF loop_ended(Len(rich_text_builder.buffer), rich_text_builder'.buffer) THEN "trim" ELSE "loop"
    /\ UNCHANGED <<nodes, matVars, html, descentVars, calls, bulkVars, pageVars, listVars, restVars>>

\* flush after its loop: the trimmed text becomes a node, or nothing
FlushEmit ==
    /\ pc = "trim"
    /\ nodes' = flush_emit(rich_text_builder.buffer, None)
    /\ pc' = "flushed"
    /\ UNCHANGED <<matVars, html, descentVars, builderVars, bulkVars, pageVars, listVars, restVars>>

\* the two passes run once more, on the text that flush returned
PassesOnFlushedText ==
    /\ pc = "flushed"
    /\ nodes # <<>>
    /\ rich_text_builder' = [rich_text_builder EXCEPT !.buffer = flush_iteration(nodes[1].text)]
    /\ pc' = "again"
    /\ UNCHANGED <<nodes, matVars, html, descentVars, calls, bulkVars, pageVars, listVars, restVars>>

\* and a second time, on their own result
PassesTwice ==
    /\ pc = "again"
    /\ rich_text_builder' = [rich_text_builder EXCEPT !.buffer = flush_iteration(@)]
    /\ pc' = "twice"
    /\ UNCHANGED <<nodes, matVars, html, descentVars, calls, bulkVars, pageVars, listVars, restVars>>

NextFlush ==
    \/ AddText
    \/ AddNewline
    \/ PushColor
    \/ PopColor
    \/ Flush
    \/ FlushPass
    \/ FlushEmit
    \/ PassesOnFlushedText
    \/ PassesTwice

SpecFlush == InitFlush /\ [][NextFlush]_vars

\* C9: the two passes of flush leave a text that flush returned unchanged,
\* applied once and applied twice; and the loop of flush ends: every turn that
\* does not end it makes the buffer shorter.
C9_FlushFixedPoint ==
    /\ [](pc \in {"again", "twice"} => rich_text_builder.buffer = nodes[1].text)
    /\ [][(pc = "loop" /\ pc' = "loop") => Len(rich_text_builder'.buffer) < Len(rich_text_builder.buffer)]_vars

\* a builder with a pushed color was filled by three calls and flushed to the
\* text a, and the passes ran twice more on that text
C9_Witness ==
    /\ pc = "twice"
    /\ calls = 3
    /\ rich_text_builder.color_stack = <<None, Some("ff0000")>>
    /\ nodes = <<RichText(<<"a">>, None)>>
    /\ rich_text_builder.buffer = <<"a">>

----------------------------------------------------------------------------
\* The store of cross references: process_bulk_data on the pages of the primary
\* language and of up to MaxLangs other languages.

MaxLangs == 2

\* config::SUPPORTED_LANGS, the first of them
Langs == <<"de-de", "en-us", "es-es", "fr-fr">>

Ids == {1, 2}

\* the icons a page of id 1 may carry: none, the empty one, one with the
\* marker, a good one
IconsOf(lang) ==
    {None, Some(<<>>), Some(<<lang, "/", "invalid-file", "-x">>), Some(<<lang, "/", "icon.png">>)}

\* the pages of the primary language: id 1 with any icon, id 2 with a marked one
PrimaryBulks ==
    {[id \in ids |-> IF id = 1 THEN ApiBulkPage(n, None, icon)
                     ELSE ApiBulkPage(Some(<<"two">>), None, Some(<<"invalid-file">>))] :
        ids \in SUBSET Ids, n \in {None, Some(<<"one">>)}, icon \in IconsOf("zh-cn")}

\* the pages of another language: id 1 with any icon, id 2 with a good one
FallbackBulks(lang) ==
    {[id \in ids |-> IF id = 1 THEN ApiBulkPage(None, None, icon)
                     ELSE ApiBulkPage(None, None, Some(<<lang, "/", "two.png">>))] :
        ids \in SUBSET Ids, icon \in IconsOf(lang)}

\* the maps language |-> pages for the first n languages
FallbackMaps(n) ==
    {[lang \in {Langs[k] : k \in 1..n} |-> pick[lang]] :
        pick \in [{Langs[k] : k \in 1..n} -> UNION {FallbackBulks(Langs[k]) : k \in 1..n}]}

\* the orders in which a HashMap with the keys S may yield them
Orders(S) ==
    {f \in [1..Cardinality(S) -> S] : \A i, j \in 1..Cardinality(S) : f[i] = f[j] => i = j}

InitBulk ==
    /\ pc = "bulk"
    /\ primary_bulk \in PrimaryBulks
    /\ \E n \in 0..MaxLangs : fallback_map \in FallbackMaps(n)
    /\ \A k \in 1..Len(Langs) :
           Langs[k] \in DOMAIN fallback_map => fallback_map[Langs[k]] \in FallbackBulks(Langs[k])
    /\ all_ids_for_primary_lang \in SUBSET Ids
    /\ raw_page = <<>>
    /\ component_tasks = <<>>
    /\ final_components = <<>>
    /\ arrival = <<>>
    /\ output = None
    /\ warnings = <<>>
    /\ raw_items = <<>>
    /\ list_file = None
    /\ collected = {}
    /\ IdleRest
    /\ bulk_store = EmptyStore
    /\ nodes = <<>>
    /\ value = VNull
    /\ via = "bulk"
    /\ html = <<>>
    /\ fragment = <<>>
    /\ at = 1
    /\ stack = <<>>
    /\ deepest = 0
    /\ rich_text_builder = NewBuilder
    /\ calls = 0

\* process_bulk_data builds the store
ProcessBulkData ==
    /\ pc = "bulk"
    /\ \E values \in Orders(DOMAIN fallback_map) :
           bulk_store' = process_bulk_data(primary_bulk, fallback_map, values,
                                           all_ids_for_primary_lang)
    /\ pc' = "stored"
    /\ UNCHANGED <<nodes, value, via, html, descentVars, builderVars, bulkVars, pageVars, listVars, restVars>>

NextBulk == ProcessBulkData

SpecBulk == InitBulk /\ [][NextBulk]_vars

\* an icon that is there, is not empty and does not hold the marker
Usable(icon) == icon.some /\ icon.v # <<>> /\ \A i \in 1..Len(icon.v) : icon.v[i] # "invalid-file"

\* the icon the primary language has for id
PrimaryIcon(id) == IF id \in DOMAIN primary_bulk THEN primary_bulk[id].icon_url ELSE None

\* the usable icons the other languages have for id
FallbackIcons(id) ==
    {fallback_map[lang][id].icon_url :
        lang \in {l \in DOMAIN fallback_map : id \in DOMAIN fallback_map[l]
                                               /\ Usable(fallback_map[l][id].icon_url)}}

\* C10: in the store process_bulk_data built, for every needed id: a usable
\* primary icon is the icon get_icon returns, whatever the fallbacks hold; with
\* a primary icon that is empty, marked invalid-file or absent, get_icon
\* returns the usable icon of a fallback language when there is one (the only
\* one when there is one only) and not-found when there is none.
C10_IconFallback ==
    pc = "stored" =>
        \A id \in all_ids_for_primary_lang :
            /\ Usable(PrimaryIcon(id)) => get_icon(bulk_store, id) = PrimaryIcon(id)
            /\ (~Usable(PrimaryIcon(id)) /\ FallbackIcons(id) # {}) =>
                   get_icon(bulk_store, id) \in FallbackIcons(id)
            /\ (~Usable(PrimaryIcon(id)) /\ FallbackIcons(id) = {}) =>
                   get_icon(bulk_store, id) = None

\* the primary icon of id 1 is marked invalid-file, the first fallback language
\* holds an empty icon and the second a usable one, which get_icon returns
C10_Witness ==
    /\ pc = "stored"
    /\ 1 \in all_ids_for_primary_lang
    /\ PrimaryIcon(1) = Some(<<"zh-cn", "/", "invalid-file", "-x">>)
    /\ DOMAIN fallback_map = {"de-de", "en-us"}
    /\ 1 \in DOMAIN fallback_map["de-de"] /\ fallback_map["de-de"][1].icon_url = Some(<<>>)
    /\ FallbackIcons(1) = {Some(<<"en-us", "/", "icon.png">>)}
    /\ get_icon(bulk_store, 1) = Some(<<"en-us", "/", "icon.png">>)
----------------------------------------------------------------------------
\* The detail page: transform_detail_page spawns one decode task per component
\* of the page and folds the results into the component map in the order in
\* which the tasks are joined.  A component id is a sequence of characters.

LowerCase ==
    <<"a", "b", "c", "d", "e", "f", "g", "h", "i", "j", "k", "l", "m",
      "n", "o", "p", "q", "r", "s", "t", "u", "v", "w", "x", "y", "z">>

UpperCase ==
    <<"A", "B", "C", "D", "E", "F", "G", "H", "I", "J", "K", "L", "M",
      "N", "O", "P", "Q", "R", "S", "T", "U", "V", "W", "X", "Y", "Z">>

\* char::to_ascii_uppercase
to_ascii_uppercase(c) ==
    IF \E i \in 1..26 : LowerCase[i] = c
    THEN UpperCase[CHOOSE i \in 1..26 : LowerCase[i] = c]
    ELSE c

RECURSIVE to_camel_case_from(_, _, _)
\* the loop of to_camel_case over the characters from index i
to_camel_case_from(s, i, capitalize_next) ==
    IF i > Len(s) THEN <<>>
    ELSE IF s[i] = "_" THEN to_camel_case_from(s, i + 1, TRUE)
    ELSE IF capitalize_next
    THEN <<to_ascii_uppercase(s[i])>> \o to_camel_case_from(s, i + 1, FALSE)
    ELSE <<s[i]>> \o to_camel_case_from(s, i + 1, FALSE)

\* transform::common::to_camel_case
to_camel_case(s) == to_camel_case_from(s, 1, FALSE)

COMPONENT_BASE_INFO == <<"b", "a", "s", "e", "I", "n", "f", "o">>

COMPONENT_GALLERY_CHARACTER ==
    <<"g", "a", "l", "l", "e", "r", "y", "_", "c", "h", "a", "r", "a", "c", "t", "e", "r">>

COMPONENT_ARTIFACT_LIST ==
    <<"a", "r", "t", "i", "f", "a", "c", "t", "_", "l", "i", "s", "t">>

COMPONENT_RELIQUARY_SET_EFFECT ==
    <<"r", "e", "l", "i", "q", "u", "a", "r", "y", "_", "s", "e", "t", "_",
      "e", "f", "f", "e", "c", "t">>

COMPONENT_MAP == <<"m", "a", "p">>

COMPONENT_TIMELINE == <<"t", "i", "m", "e", "l", "i", "n", "e">>

COMPONENT_TCG == <<"t", "c", "g">>

\* api::model::ApiComponent: the id and the data as the deserializer typed it
ApiComponent(component_id, variant, data) ==
    [component_id |-> component_id, typed_data |-> [variant |-> variant, data |-> data]]

\* api::model::ApiModule
ApiModule(components, modules) == [components |-> components, modules |-> modules]

\* a variant of flatten_modules_components that does not look into the modules
\* of a module
flatten_top_modules(modules) ==
    Flatten([i \in 1..Len(modules) |-> modules[i].components])

RECURSIVE flatten_modules_components(_)
\* flatten_modules_components: the components of each module, followed by the
\* components of the modules in it
flatten_modules_components(modules) ==
    IF modules = <<>> THEN <<>>
    ELSE Head(modules).components
         \o (IF Head(modules).modules # <<>>
             THEN flatten_modules_components(Head(modules).modules)
             ELSE <<>>)
         \o flatten_modules_components(Tail(modules))

\* model::output::ComponentData
ComponentData(variant, content) == [variant |-> variant, content |-> content]

\* Some(variant(res)) for a non-empty res: (!res.is_empty()).then_some(..)
ThenSome(variant, res) ==
    With(res, LAMBDA r : IF r = <<>> THEN None ELSE Some(ComponentData(variant, r)))

RECURSIVE transform_base_info_list(_, _)
\* transform_base_info_list
transform_base_info_list(items, store) ==
    IF items = <<>> THEN <<>>
    ELSE LET item == Head(items)
             nodes_of == IF item.is_material = Some(TRUE)
                         THEN parse_materials_value(item.value, store)
                         ELSE parse_value_to_html_nodes(item.value, store)
         IN  With(nodes_of,
                  LAMBDA ns : IF item.key # <<>> \/ ns # <<>>
                              THEN <<[key |-> item.key,
                                      value |-> IF ns = <<>> THEN None ELSE Some(ns),
                                      is_material |-> item.is_material]>>
                              ELSE <<>>)
             \o transform_base_info_list(Tail(items), store)

\* the inner loop of transform_timeline_component: the nodes of the modules of
\* an event
event_contents(modules, store) ==
    Flatten([i \in 1..Len(modules) |-> parse_value_to_html_nodes(VStr(modules[i].desc), store)])

\* the body of the loop of transform_timeline_component: zero or one event
timeline_event(event, contents) ==
    With(contents,
         LAMBDA c : IF c # <<>> \/ event.title # <<>>
                    THEN <<[title |-> event.title, sub_title |-> event.sub_title,
                            bg_url |-> event.icon_url,
                            contents |-> IF c # <<>> /\ event.title # <<>>
                                         THEN <<Heading(3, event.title, None)>> \o c
                                         ELSE c]>>
                    ELSE <<>>)

\* transform_timeline_component
transform_timeline_component(list_data, store) ==
    Flatten([i \in 1..Len(list_data.list) |->
        timeline_event(list_data.list[i], event_contents(list_data.list[i].modules, store))])

\* the body of the loop of transform_gallery_list: zero or one item
gallery_item(item, desc_nodes) ==
    IF item.img # <<>> \/ item.key # <<>>
    THEN <<[key |-> item.key, img |-> item.img, img_desc |-> desc_nodes]>>
    ELSE <<>>

\* transform_gallery_list
transform_gallery_list(items, store) ==
    Flatten([i \in 1..Len(items) |->
        gallery_item(items[i], parse_value_to_html_nodes(items[i].img_desc, store))])

\* the test of transform_artifact_map for keeping an item
artifact_kept(item, desc_nodes) ==
    desc_nodes # <<>> \/ item.icon_url # <<>> \/ item.title.some

\* transform_artifact_map: the HashMap of the items that are kept
transform_artifact_map(item_map, store) ==
    [key \in {k \in DOMAIN item_map :
                artifact_kept(item_map[k], parse_value_to_html_nodes(item_map[k].desc, store))} |->
        [title |-> item_map[key].title, position |-> item_map[key].position,
         desc |-> parse_value_to_html_nodes(item_map[key].desc, store),
         icon_url |-> item_map[key].icon_url]]

\* transform_reliquary_effect
transform_reliquary_effect(effect) ==
    IF effect.two_set_effect.some \/ effect.four_set_effect.some
    THEN Some([two_set_effect |-> effect.two_set_effect,
               four_set_effect |-> effect.four_set_effect])
    ELSE None

\* transform_tcg_data
transform_tcg_data(api_data) ==
    [cost_icon_type |-> api_data.cost_icon_type,
     cost_icon_type_any |-> api_data.cost_icon_type_any,
     header_imgs |-> [i \in 1..Len(api_data.header_imgs) |->
                        [img_url |-> api_data.header_imgs[i].img_url,
                         img_desc |-> api_data.header_imgs[i].img_desc]],
     hp |-> api_data.hp]

NoArtifacts == [k \in {} |-> None]

\* the characters of the strings that are compared, in the order of their
\* code points
CodePoints == <<"1", "2", "3", "4">> \o UpperCase \o LowerCase

CodePoint(c) == CHOOSE i \in 1..Len(CodePoints) : CodePoints[i] = c

RECURSIVE str_lt(_, _)
\* a.cmp(&b) == Ordering::Less for two strings of these characters
str_lt(a, b) ==
    IF b = <<>> THEN FALSE
    ELSE IF a = <<>> THEN TRUE
    ELSE IF a[1] = b[1] THEN str_lt(Tail(a), Tail(b))
    ELSE CodePoint(a[1]) < CodePoint(b[1])

\* slice::sort_by(|a, b| key(a).cmp(&key(b))): the sort is stable
sort_by(items, key(_)) ==
    LET sorted ==
          CHOOSE o \in Orders(1..Len(items)) :
              \A k, l \in 1..Len(items) :
                  k < l => \/ str_lt(key(items[o[k]]), key(items[o[l]]))
                           \/ key(items[o[k]]) = key(items[o[l]]) /\ o[k] < o[l]
    IN  [k \in 1..Len(items) |-> items[sorted[k]]]

\* Vec::dedup_by(|a, b| key(a) == key(b)): of consecutive items with the same
\* key the first stays
dedup_by(items, key(_)) ==
    LET kept == {i \in 1..Len(items) : i = 1 \/ key(items[i]) # key(items[i - 1])}
    IN  [k \in 1..Cardinality(kept) |->
            items[CHOOSE i \in kept : Cardinality({j \in kept : j <= i}) = k]]

\* a field read with deserialize_string_or_default, absent or a string
string_or_default(map, k) == UnwrapOrEmpty(AndThenStr(MapGet(map, k)))

\* the array under a key with #[serde(default)], absent or an array of objects
vec_or_default(map, k) == IF k \in DOMAIN map THEN map[k].a ELSE <<>>

\* a field read with deserialize_optional_string: a blank string is None
optional_string(map, k) ==
    IF AndThenStr(MapGet(map, k)).some /\ ~IsBlank(AndThenStr(MapGet(map, k)).v)
    THEN AndThenStr(MapGet(map, k))
    ELSE None

\* the OutputVideoCollectionItem pushed for a video of a category
video_item(video) ==
    [video_id |-> UnwrapOrEmpty(optional_string(video, "video_id")),
     title |-> string_or_default(video, "title"),
     url |-> string_or_default(video, "url"),
     cover_url |-> UnwrapOrEmpty(AndThenStr(GetFirst(video, <<"cover", "img">>))),
     duration |-> UnwrapOrZero(AndThenParseI64(MapGet(video, "duration")))]

\* the two loops over parsed_data.list and category.videos
output_videos(parsed_data) ==
    Flatten([c \in 1..Len(vec_or_default(parsed_data, "list")) |->
        [v \in 1..Len(vec_or_default(vec_or_default(parsed_data, "list")[c].o, "videos")) |->
            video_item(vec_or_default(vec_or_default(parsed_data, "list")[c].o, "videos")[v].o)]])

\* transform_video_collection for the data that is an object or null: the
\* videos of all categories, sorted by title, consecutive ones with the same
\* url dropped
transform_video_collection(data_val) ==
    CASE data_val.t = "obj" ->
           dedup_by(sort_by(output_videos(data_val.o), LAMBDA v : v.title),
                    LAMBDA v : v.url)
      [] OTHER -> <<>>

\* the match of transform_component_content on the typed data, for the kinds
\* of component that the pages here carry: Some(data) or None
component_data(typed_data, store) ==
    CASE typed_data.variant = "BaseInfoList" ->
           ThenSome("BaseInfo", transform_base_info_list(typed_data.data, store))
      [] typed_data.variant = "Timeline" ->
           ThenSome("Timeline", transform_timeline_component(typed_data.data, store))
      [] typed_data.variant = "GalleryCharacterList" ->
           ThenSome("GalleryCharacter", transform_gallery_list(typed_data.data, store))
      [] typed_data.variant = "ArtifactMap" ->
           With(transform_artifact_map(typed_data.data, store),
                LAMBDA res : IF DOMAIN res = {} THEN None
                             ELSE Some(ComponentData("ArtifactList", res)))
      [] typed_data.variant = "ReliquarySetEffect" ->
           IF transform_reliquary_effect(typed_data.data).some
           THEN Some(ComponentData("ReliquarySetEffect",
                                   transform_reliquary_effect(typed_data.data).v))
           ELSE None
      [] typed_data.variant = "Map" ->
           IF typed_data.data.url # <<>>
           THEN Some(ComponentData("MapUrl", typed_data.data.url))
           ELSE None
      [] typed_data.variant = "VideoCollection" ->
           ThenSome("VideoCollection", transform_video_collection(typed_data.data))
      [] typed_data.variant = "Tcg" ->
           Some(ComponentData("Tcg", transform_tcg_data(typed_data.data)))
      [] typed_data.variant = "Unknown" ->
           IF typed_data.data = VNull THEN None
           ELSE Some(ComponentData("Unknown", typed_data.data))

\* the result of a decode task that ran to its end without an error:
\* Ok(Some((component_id, data))) or Ok(None)
Decoded(component_id, data) ==
    With(data, LAMBDA d : IF d.some THEN [kind |-> "some", id |-> component_id, content |-> d.v]
                          ELSE [kind |-> "none"])

\* transform_component_content
transform_component_content(api_comp, store) ==
    Decoded(api_comp.component_id, component_data(api_comp.typed_data, store))

\* Ok(Err(e)): the decode returned an error
DecodeError == [kind |-> "err"]

\* Err(e): the decode task panicked
Panicked == [kind |-> "panicked"]

\* the variants of ComponentData that hold a Vec and are merged by Vec::extend
ListVariants ==
    {"BaseInfo", "Ascension", "Talent", "SummaryList", "Story", "Voice",
     "TextualResearch", "Timeline", "Customize", "DropMaterial"}

\* a merge of two lists that keeps the new one only
extend_replaces(existing, new) == new

\* Vec::extend
extend(existing, new) == existing \o new

\* a GalleryCharacter arm that looks at the img of the new items only
gallery_push_by_img(existing_items, new_items) ==
    existing_items
    \o Flatten([i \in 1..Len(new_items) |->
          IF \A j \in 1..Len(existing_items) : existing_items[j].img # new_items[i].img
          THEN <<new_items[i]>>
          ELSE <<>>])

\* the GalleryCharacter arm: the new items whose img and whose key are not
\* among the existing items are pushed
gallery_push(existing_items, new_items) ==
    existing_items
    \o Flatten([i \in 1..Len(new_items) |->
          IF /\ \A j \in 1..Len(existing_items) : existing_items[j].img # new_items[i].img
             /\ \A j \in 1..Len(existing_items) : existing_items[j].key # new_items[i].key
          THEN <<new_items[i]>>
          ELSE <<>>])

\* HashMap::extend: an entry of new replaces the entry of existing with its key
hash_map_extend(existing, new) ==
    [k \in DOMAIN existing \cup DOMAIN new |-> IF k \in DOMAIN new THEN new[k] ELSE existing[k]]

\* the VideoCollection arm: the new videos are appended, the list is sorted
\* by video_id and of consecutive videos with the same video_id the first stays
video_merge(existing_videos, new_videos) ==
    dedup_by(sort_by(extend(existing_videos, new_videos), LAMBDA v : v.video_id),
             LAMBDA v : v.video_id)

\* the variants whose contents are merged by an arm of their own
MergedVariants == ListVariants \cup {"GalleryCharacter", "VideoCollection", "ArtifactList"}

\* the match (existing_content_mut, new_content) of an occupied entry
merge_occupied(existing, new) ==
    CASE existing.variant = new.variant /\ new.variant \in ListVariants ->
           ComponentData(new.variant, extend(existing.content, new.content))
      [] existing.variant = "GalleryCharacter" /\ new.variant = "GalleryCharacter" ->
           ComponentData(new.variant, gallery_push(existing.content, new.content))
      [] existing.variant = "VideoCollection" /\ new.variant = "VideoCollection" ->
           ComponentData(new.variant, video_merge(existing.content, new.content))
      [] existing.variant = "ArtifactList" /\ new.variant = "ArtifactList" ->
           ComponentData(new.variant, hash_map_extend(existing.content, new.content))
      [] ~(existing.variant = new.variant /\ new.variant \in MergedVariants) ->
           new

\* a line of the log: its level and the head of its message
Logged(level, message) == [level |-> level, message |-> message]

\* what the last arm of the match, (existing, new), logs before it overwrites
overwrite_logged(existing, new) ==
    IF existing.variant # new.variant /\ existing.variant # "Unknown"
    THEN <<Logged("Warning", "Merging different component types")>>
    ELSE IF new.variant \notin {"ReliquarySetEffect", "MapUrl", "Tcg", "Unknown"}
    THEN <<Logged("Warning", "Overwriting component data")>>
    ELSE <<>>

\* what one turn of the loop over join_next logs
join_logged(components, result) ==
    CASE result.kind = "some" ->
           IF /\ to_camel_case(result.id) \in DOMAIN components
              /\ ~(components[to_camel_case(result.id)].variant = result.content.variant
                   /\ result.content.variant \in MergedVariants)
           THEN overwrite_logged(components[to_camel_case(result.id)], result.content)
           ELSE <<>>
      [] result.kind = "none" -> <<>>
      [] result.kind = "err" -> <<Logged("Warning", "Comp transform error")>>
      [] result.kind = "panicked" -> <<Logged("Error", "Comp transform task panicked")>>

NoComponents == [k \in {} |-> ComponentData("Unknown", VNull)]

\* the arm Ok(Ok(Some((id, new_content)))) under the key camel_case_id
insert_or_merge(components, camel_case_id, new_content) ==
    IF camel_case_id \in DOMAIN components
    THEN [components EXCEPT ![camel_case_id] = merge_occupied(@, new_content)]
    ELSE (camel_case_id :> new_content) @@ components

\* an arm for a failed task that empties the map
join_failed_clears(components) == NoComponents

\* the arms Ok(Err(e)) and Err(e): the failure is logged
join_failed(components) == components

\* the body of the loop over component_tasks.join_next()
join_next(components, result) ==
    CASE result.kind = "some" ->
           insert_or_merge(components, to_camel_case(result.id), result.content)
      [] result.kind = "none" -> components
      [] result.kind \in {"err", "panicked"} -> join_failed(components)

\* final_components.retain(..): a Customize without nodes goes
retain_components(components) ==
    [k \in {c \in DOMAIN components :
              ~(components[c].variant = "Customize" /\ components[c].content = <<>>)} |->
        components[k]]

\* raw_page.id, when it is an id
page_id_of(raw) == IF raw.id.some /\ raw.id.v > 0 THEN raw.id ELSE None

\* a final_name that looks in the store only
final_name_of_store(raw, store) ==
    IF get_name(store, raw.id.v).some /\ get_name(store, raw.id.v).v # <<>>
    THEN get_name(store, raw.id.v)
    ELSE None

\* final_name: the name in the store, or else the name of the page, when not
\* empty
final_name_of(raw, store) ==
    IF get_name(store, raw.id.v).some /\ get_name(store, raw.id.v).v # <<>>
    THEN get_name(store, raw.id.v)
    ELSE IF raw.name # <<>> THEN Some(raw.name) ELSE None

\* what transform_detail_page returns after the loop: Ok(None) or Ok(Some(page)),
\* of the page its id, name and components
page_returned(raw, store, components) ==
    IF ~final_name_of(raw, store).some /\ DOMAIN components = {}
    THEN [ok |-> TRUE, page |-> None]
    ELSE [ok |-> TRUE,
          page |-> Some([id |-> raw.id.v, name |-> final_name_of(raw, store),
                         components |-> components])]

\* does the decode of the value hand a text to the blocking pool?
RECURSIVE runs_blocking(_)
runs_blocking(val) ==
    CASE val.t = "str" -> ~IsSentinel(trim(val.s)) /\ ContainsAngleBrackets(trim(val.s))
      [] val.t = "arr" -> \E i \in 1..Len(val.a) : runs_blocking(val.a[i])
      [] OTHER -> FALSE

\* the values that the decode of the typed data passes to
\* parse_value_to_html_nodes
html_values(typed_data) ==
    CASE typed_data.variant = "BaseInfoList" ->
           {typed_data.data[i].value : i \in 1..Len(typed_data.data)}
      [] typed_data.variant = "Timeline" ->
           UNION {{VStr(typed_data.data.list[i].modules[j].desc) :
                     j \in 1..Len(typed_data.data.list[i].modules)} :
                  i \in 1..Len(typed_data.data.list)}
      [] typed_data.variant = "GalleryCharacterList" ->
           {typed_data.data[i].img_desc : i \in 1..Len(typed_data.data)}
      [] typed_data.variant = "ArtifactMap" ->
           {typed_data.data[k].desc : k \in DOMAIN typed_data.data}
      [] OTHER -> {}

\* utils::run_blocking is awaited by the decode of the component: its
\* JoinError becomes the error of the decode
awaits_blocking(api_comp) == \E val \in html_values(api_comp.typed_data) : runs_blocking(val)

MaxComps == 2

ApiBaseInfoItem(key, val) == [key |-> key, value |-> val, is_material |-> None]

ApiTimelineEvent(title, desc) ==
    [title |-> title, sub_title |-> <<>>, icon_url |-> <<"bg.png">>,
     modules |-> <<[desc |-> desc]>>]

ApiGalleryCharacterItem(key, img) == [key |-> key, img |-> img, img_desc |-> VNull]

ApiArtifactListItem(title, icon_url) ==
    [title |-> Some(title), position |-> <<>>, desc |-> VNull, icon_url |-> icon_url]

ApiTcgData(hp) ==
    [cost_icon_type |-> <<"pyro">>, cost_icon_type_any |-> <<>>, header_imgs |-> <<>>, hp |-> hp]

BaseInfoFirst ==
    ApiComponent(COMPONENT_BASE_INFO, "BaseInfoList",
                 <<ApiBaseInfoItem(<<"Rarity">>, VStr(<<"5">>)),
                   ApiBaseInfoItem(<<"Region">>, VStr(<<"<p>", "Mondstadt", "</p>">>))>>)

BaseInfoSecond ==
    ApiComponent(COMPONENT_BASE_INFO, "BaseInfoList",
                 <<ApiBaseInfoItem(<<"Weapon">>, VStr(<<"Bow">>)),
                   ApiBaseInfoItem(<<"Rarity">>, VStr(<<"5">>))>>)

TimelineFirst ==
    ApiComponent(COMPONENT_TIMELINE, "Timeline",
                 [list |-> <<ApiTimelineEvent(<<"First">>, <<"a">>)>>])

TimelineSecond ==
    ApiComponent(COMPONENT_TIMELINE, "Timeline",
                 [list |-> <<ApiTimelineEvent(<<"Second">>, <<"<p>", "b", "</p>">>)>>])

\* the components a page is made of; a known id comes with the variant that
\* ApiComponent::deserialize gives it, any other id with Unknown
PageComponents ==
    <<BaseInfoFirst,
      BaseInfoSecond,
      ApiComponent(COMPONENT_BASE_INFO, "BaseInfoList", <<ApiBaseInfoItem(<<>>, VNull)>>),
      ApiComponent(<<"b", "a", "s", "e", "_", "i", "n", "f", "o">>, "Unknown", VStr(<<"raw">>)),
      TimelineFirst,
      TimelineSecond,
      ApiComponent(COMPONENT_GALLERY_CHARACTER, "GalleryCharacterList",
                   <<ApiGalleryCharacterItem(<<"Card">>, <<"1.png">>)>>),
      ApiComponent(COMPONENT_GALLERY_CHARACTER, "GalleryCharacterList",
                   <<ApiGalleryCharacterItem(<<"Card">>, <<"2.png">>),
                     ApiGalleryCharacterItem(<<"Art">>, <<"3.png">>)>>),
      ApiComponent(COMPONENT_ARTIFACT_LIST, "ArtifactMap",
                   ("flower" :> ApiArtifactListItem(<<"A">>, <<"a.png">>))),
      ApiComponent(COMPONENT_ARTIFACT_LIST, "ArtifactMap",
                   ("flower" :> ApiArtifactListItem(<<"B">>, <<"b.png">>))
                   @@ ("plume" :> ApiArtifactListItem(<<"C">>, <<>>))),
      ApiComponent(COMPONENT_RELIQUARY_SET_EFFECT, "ReliquarySetEffect",
                   [two_set_effect |-> Some(<<"two">>), four_set_effect |-> None]),
      ApiComponent(COMPONENT_RELIQUARY_SET_EFFECT, "ReliquarySetEffect",
                   [two_set_effect |-> None, four_set_effect |-> Some(<<"four">>)]),
      ApiComponent(COMPONENT_MAP, "Map", [url |-> <<"map1">>]),
      ApiComponent(COMPONENT_MAP, "Map", [url |-> <<"map2">>]),
      ApiComponent(COMPONENT_TCG, "Tcg", ApiTcgData(10)),
      ApiComponent(COMPONENT_TCG, "Tcg", ApiTcgData(8))>>

\* the lists of up to MaxComps components, in the order of PageComponents
ComponentLists ==
    UNION {{[i \in 1..n |-> PageComponents[pick[i]]] :
              pick \in {p \in [1..n -> 1..Len(PageComponents)] :
                          \A i \in 1..(n - 1) : p[i] <= p[i + 1]}} :
           n \in 0..MaxComps}

RECURSIVE NestedModules(_)
\* the modules that hold one component each, each module in the one before
NestedModules(comps) ==
    IF comps = <<>> THEN <<>>
    ELSE <<ApiModule(<<Head(comps)>>, NestedModules(Tail(comps)))>>

\* the modules that hold one component each, one after the other
ModulesInARow(comps) == [i \in 1..Len(comps) |-> ApiModule(<<comps[i]>>, <<>>)]

\* api::model::ApiDetailPage: its id, name and modules
ApiDetailPage(id, name, modules) == [id |-> id, name |-> name, modules |-> modules]

\* the pages: a named page 7 with any modules, and pages without a name or
\* without an id with at most one module
RawPages ==
    {ApiDetailPage(Some(7), <<"Page">>, ms) :
        ms \in {ModulesInARow(c) : c \in ComponentLists}
               \cup {NestedModules(c) : c \in ComponentLists}}
    \cup {ApiDetailPage(id, <<>>, ModulesInARow(c)) :
            id \in {None, Some(0), Some(-3), Some(7)},
            c \in {l \in ComponentLists : Len(l) <= 1}}

InitPage ==
    /\ pc = "page"
    /\ raw_page \in RawPages
    /\ component_tasks = <<>>
    /\ final_components = NoComponents
    /\ arrival = <<>>
    /\ output = None
    /\ warnings = <<>>
    /\ raw_items = <<>>
    /\ list_file = None
    /\ collected = {}
    /\ IdleRest
    /\ bulk_store \in {EmptyStore, (7 :> BulkInfo(Some(<<"Stored">>), None, None))}
    /\ raw_page.name # <<>> => bulk_store = EmptyStore
    /\ primary_bulk = NoPages
    /\ fallback_map = <<>>
    /\ all_ids_for_primary_lang = {}
    /\ nodes = <<>>
    /\ value = VNull
    /\ via = "page"
    /\ html = <<>>
    /\ fragment = <<>>
    /\ at = 1
    /\ stack = <<>>
    /\ deepest = 0
    /\ rich_text_builder = NewBuilder
    /\ calls = 0

idleInPage == <<nodes, matVars, html, descentVars, builderVars, bulkVars, listVars, restVars>>

\* transform_detail_page returns Ok(None) for a page without an id above 0
NoPageId ==
    /\ pc = "page"
    /\ ~page_id_of(raw_page).some
    /\ output' = Some([ok |-> TRUE, page |-> None])
    /\ pc' = "done"
    /\ UNCHANGED <<raw_page, component_tasks, final_components, arrival, warnings, idleInPage>>

\* component_tasks.spawn(..) for each of the components: the task of a
\* component runs transform_component_content on it
spawned(all_components, store) ==
    [i \in 1..Len(all_components) |->
        [component |-> all_components[i],
         returns |-> transform_component_content(all_components[i], store)]]

\* transform_detail_page up to its loop: one task per component is spawned
SpawnComponentTasks ==
    /\ pc = "page"
    /\ page_id_of(raw_page).some
    /\ component_tasks' = spawned(flatten_modules_components(raw_page.modules), bulk_store)
    /\ pc' = "join"
    /\ UNCHANGED <<raw_page, final_components, arrival, output, warnings, idleInPage>>

\* the tasks that join_next has not returned yet
Unjoined == {i \in 1..Len(component_tasks) : \A k \in 1..Len(arrival) : arrival[k].task # i}

\* one turn of the loop: join_next returns the result of task i
Joins(i, result) ==
    /\ final_components' = join_next(final_components, result)
    /\ arrival' = Append(arrival, [task |-> i, result |-> result])
    /\ warnings' = warnings \o join_logged(final_components, result)
    /\ UNCHANGED <<pc, raw_page, component_tasks, output, idleInPage>>

\* a task ran to its end and returned a component: Ok(Ok(Some(..)))
JoinDecoded ==
    /\ pc = "join"
    /\ \E i \in Unjoined :
          /\ component_tasks[i].returns.kind = "some"
          /\ Joins(i, component_tasks[i].returns)

\* a task ran to its end and returned no component: Ok(Ok(None))
JoinNothing ==
    /\ pc = "join"
    /\ \E i \in Unjoined :
          /\ component_tasks[i].returns.kind = "none"
          /\ Joins(i, component_tasks[i].returns)

\* a task whose decode awaited the blocking pool got its error: Ok(Err(e))
JoinError ==
    /\ pc = "join"
    /\ \E i \in Unjoined :
          /\ awaits_blocking(component_tasks[i].component)
          /\ Joins(i, DecodeError)

\* a task panicked: Err(e)
JoinPanicked ==
    /\ pc = "join"
    /\ \E i \in Unjoined : Joins(i, Panicked)

\* join_next returned None: the rest of transform_detail_page
ReturnPage ==
    /\ pc = "join"
    /\ Unjoined = {}
    /\ final_components' = retain_components(final_components)
    /\ output' = Some(page_returned(raw_page, bulk_store, retain_components(final_components)))
    /\ pc' = "done"
    /\ UNCHANGED <<raw_page, component_tasks, arrival, warnings, idleInPage>>

NextPage ==
    \/ NoPageId
    \/ SpawnComponentTasks
    \/ JoinDecoded
    \/ JoinNothing
    \/ JoinError
    \/ JoinPanicked
    \/ ReturnPage

SpecPage == InitPage /\ [][NextPage]_vars

\* the result of the decode of the i-th spawned component
DecodedOf(i) == transform_component_content(component_tasks[i].component, bulk_store)

\* the components whose tasks were spawned
Spawned == [i \in 1..Len(component_tasks) |-> component_tasks[i].component]

RECURSIVE FoldFrom(_, _, _)
\* the map after the components among the results from index k were inserted
\* or merged in their order
FoldFrom(results, k, components) ==
    IF k > Len(results) THEN components
    ELSE FoldFrom(results, k + 1,
                  IF results[k].kind = "some"
                  THEN insert_or_merge(components, to_camel_case(results[k].id),
                                       results[k].content)
                  ELSE components)

\* the map that the results give when folded in their order
FoldOf(results) == retain_components(FoldFrom(results, 1, NoComponents))

\* no task of the page failed
NoFailure == \A k \in 1..Len(arrival) : arrival[k].result.kind \in {"some", "none"}

\* the order in which join_next returned the tasks
ArrivalOrder == [k \in 1..Len(arrival) |-> arrival[k].task]

\* the components of the page that share an output key decode to the same
\* variant
SameVariantPerKey ==
    \A i, j \in 1..Len(component_tasks) :
        (/\ DecodedOf(i).kind = "some"
         /\ DecodedOf(j).kind = "some"
         /\ to_camel_case(DecodedOf(i).id) = to_camel_case(DecodedOf(j).id))
        => DecodedOf(i).content.variant = DecodedOf(j).content.variant

\* C3: for a page whose components that share an output key decode to the same
\* variant, the final component map is the same for every order in which the
\* decode tasks complete: it is the map of the order in which they were spawned.
C3_OrderIndependent ==
    (pc = "done" /\ NoFailure /\ SameVariantPerKey)
    => final_components = FoldOf([i \in 1..Len(component_tasks) |-> DecodedOf(i)])

\* two gallery components with the key Card: the second task completed first,
\* and the map holds its image for Card, where the other order gives 1.png
C3_SecondGalleryFirst ==
    /\ pc = "done"
    /\ Len(component_tasks) = 2
    /\ \A i \in 1..2 : Spawned[i].component_id = COMPONENT_GALLERY_CHARACTER
    /\ NoFailure
    /\ ArrivalOrder = <<2, 1>>
    /\ final_components =
         (<<"g", "a", "l", "l", "e", "r", "y", "C", "h", "a", "r", "a", "c", "t", "e", "r">> :>
            ComponentData("GalleryCharacter",
                          <<[key |-> <<"Card">>, img |-> <<"2.png">>, img_desc |-> <<>>],
                            [key |-> <<"Art">>, img |-> <<"3.png">>, img_desc |-> <<>>]>>))

\* how often x occurs in the sequence s
Times(s, x) == Cardinality({i \in 1..Len(s) : s[i] = x})

\* the elements of the sequence s
Range(s) == {s[i] : i \in 1..Len(s)}

RECURSIVE IsSubsequence(_, _)
\* the elements of s occur in t in the order of s
IsSubsequence(s, t) ==
    IF s = <<>> THEN TRUE
    ELSE IF t = <<>> THEN FALSE
    ELSE IF Head(s) = Head(t) THEN IsSubsequence(Tail(s), Tail(t))
    ELSE IsSubsequence(s, Tail(t))

\* the tasks that decoded a component under the key baseInfo
BaseInfoTasks ==
    {k \in 1..Len(arrival) :
        /\ arrival[k].result.kind = "some"
        /\ to_camel_case(arrival[k].result.id) = COMPONENT_BASE_INFO}

\* the list that the base-info component of task i decodes to
BaseInfoOf(i) == transform_base_info_list(Spawned[i].typed_data.data, bulk_store)

\* C4: when the results of two base-info components were folded under their
\* key, the merged list holds each item as often as the two decoded lists
\* together, whichever task completed first, and the items of each decoded list
\* are in it in their order.
C4_BaseInfoMerge ==
    pc = "done" =>
        \A k1, k2 \in BaseInfoTasks :
            (/\ k1 < k2
             /\ BaseInfoTasks = {k1, k2}
             /\ \A k \in {k1, k2} :
                   Spawned[arrival[k].task].typed_data.variant = "BaseInfoList")
            => /\ COMPONENT_BASE_INFO \in DOMAIN final_components
               /\ final_components[COMPONENT_BASE_INFO].variant = "BaseInfo"
               /\ \A item \in Range(final_components[COMPONENT_BASE_INFO].content)
                              \cup Range(BaseInfoOf(arrival[k1].task))
                              \cup Range(BaseInfoOf(arrival[k2].task)) :
                      Times(final_components[COMPONENT_BASE_INFO].content, item)
                      = Times(BaseInfoOf(arrival[k1].task), item)
                        + Times(BaseInfoOf(arrival[k2].task), item)
               /\ \A k \in {k1, k2} :
                      IsSubsequence(BaseInfoOf(arrival[k].task),
                                    final_components[COMPONENT_BASE_INFO].content)

\* a base-info item whose value is one text
TextItem(key, text) ==
    [key |-> key, value |-> Some(<<RichText(text, None)>>), is_material |-> None]

\* the second of two base-info components completed first: its two items come
\* before the two of the first, and Rarity 5, which both hold, is there twice
C4_Witness ==
    /\ pc = "done"
    /\ Spawned = <<BaseInfoFirst, BaseInfoSecond>>
    /\ NoFailure
    /\ ArrivalOrder = <<2, 1>>
    /\ final_components[COMPONENT_BASE_INFO].content =
         <<TextItem(<<"Weapon">>, <<"Bow">>), TextItem(<<"Rarity">>, <<"5">>),
           TextItem(<<"Rarity">>, <<"5">>), TextItem(<<"Region">>, <<"Mondstadt">>)>>

\* the turns of the loop in which join_next returned a failure
Failures == {k \in 1..Len(arrival) : arrival[k].result.kind \in {"err", "panicked"}}

\* the results of the page without the components whose tasks failed, in the
\* order of arrival
Survivors ==
    Flatten([k \in 1..Len(arrival) |->
        IF k \in Failures THEN <<>> ELSE <<DecodedOf(arrival[k].task)>>])

\* C5: when a decode task of the page returned an error or panicked,
\* transform_detail_page returns Ok, and the component map, which is the one
\* of the page it returns, is that of the page without the failed components.
C5_FailureExcluded ==
    (pc = "done" /\ Failures # {})
    => /\ output.some
       /\ output.v.ok
       /\ final_components = FoldOf(Survivors)
       /\ output.v.page.some => output.v.page.v.components = final_components
       /\ ~output.v.page.some => final_components = NoComponents

\* the decode of the base-info component returned an error and the timeline
\* was decoded after it: the page is returned with the timeline only
C5_Witness ==
    /\ pc = "done"
    /\ Spawned = <<BaseInfoFirst, TimelineFirst>>
    /\ Len(arrival) = 2
    /\ arrival[1] = [task |-> 1, result |-> DecodeError]
    /\ arrival[2].result.kind = "some"
    /\ DOMAIN final_components = {COMPONENT_TIMELINE}
    /\ output.v.ok
    /\ output.v.page.some
    /\ DOMAIN output.v.page.v.components = {COMPONENT_TIMELINE}

\* the event of TimelineFirst in the output
EventFirst ==
    [title |-> <<"First">>, sub_title |-> <<>>, bg_url |-> <<"bg.png">>,
     contents |-> <<Heading(3, <<"First">>, None), RichText(<<"a">>, None)>>]

\* the event of TimelineSecond in the output
EventSecond ==
    [title |-> <<"Second">>, sub_title |-> <<>>, bg_url |-> <<"bg.png">>,
     contents |-> <<Heading(3, <<"Second">>, None), RichText(<<"b">>, None)>>]

\* a page of two modules with a timeline component each, the second module
\* after the first or in it
TwoTimelineModules ==
    raw_page.modules \in {ModulesInARow(<<TimelineFirst, TimelineSecond>>),
                          NestedModules(<<TimelineFirst, TimelineSecond>>)}

\* C6: a page of two modules with a timeline component each, one with a first
\* and one with a second event, gets exactly one component, under the key
\* timeline, which holds both events in the order in which the two results
\* were folded.
C6_TimelineMerged ==
    (pc = "done" /\ TwoTimelineModules /\ page_id_of(raw_page).some /\ NoFailure)
    => /\ DOMAIN final_components = {COMPONENT_TIMELINE}
       /\ Len(arrival) = 2
       /\ final_components[COMPONENT_TIMELINE] =
            ComponentData("Timeline",
                          IF ArrivalOrder = <<1, 2>> THEN <<EventFirst, EventSecond>>
                          ELSE <<EventSecond, EventFirst>>)

\* the timeline of the inner module was decoded first: the second event comes
\* first
C6_Witness ==
    /\ pc = "done"
    /\ raw_page.modules = NestedModules(<<TimelineFirst, TimelineSecond>>)
    /\ NoFailure
    /\ ArrivalOrder = <<2, 1>>
    /\ final_components =
         (COMPONENT_TIMELINE :> ComponentData("Timeline", <<EventSecond, EventFirst>>))

\* the page has an id above 0
HasPageId == raw_page.id.some /\ raw_page.id.v > 0

\* the store or else the page gives a name that is not empty
NameResolved ==
    \/ /\ raw_page.id.v \in DOMAIN bulk_store
       /\ bulk_store[raw_page.id.v].name.some
       /\ bulk_store[raw_page.id.v].name.v # <<>>
    \/ raw_page.name # <<>>

\* C11: transform_detail_page returns no page exactly when the page has no id
\* above 0, or when neither the store nor the page gives a non-empty name and
\* the final component map is empty; in every other case it returns a page.
C11_NoPageExactlyWhen ==
    pc = "done" =>
        /\ output.some
        /\ output.v.ok
        /\ ~output.v.page.some
             <=> (~HasPageId \/ (~NameResolved /\ DOMAIN final_components = {}))
        /\ output.v.page.some => output.v.page.v.id = raw_page.id.v

\* page 7 has no name, the store holds none for it, and the task of its one
\* component panicked: no page is returned
C11_Witness ==
    /\ pc = "done"
    /\ raw_page.id = Some(7)
    /\ raw_page.name = <<>>
    /\ bulk_store = EmptyStore
    /\ Len(arrival) = 1
    /\ arrival[1].result = Panicked
    /\ output = Some([ok |-> TRUE, page |-> None])

\* ------------------------------------------------------------------------
\* transform_list_file (transform/list.rs)
\* ------------------------------------------------------------------------

\* Option::unwrap_or
UnwrapOr(a, b) == IF a.some THEN a.v ELSE b

\* api::model::ApiListItem; its filter values take no part in what follows
ApiListItem(entry_page_id, name, icon_url, desc) ==
    [entry_page_id |-> entry_page_id, name |-> name, icon_url |-> icon_url, desc |-> desc]

\* model::output::OutputListItem
OutputListItem(id, name, icon_url, desc) ==
    [id |-> id, name |-> name, icon_url |-> icon_url, desc |-> desc]

\* the body of the loop up to its test: name, icon and description are the
\* store's when it has them and the item's own otherwise
list_item(item, store) ==
    OutputListItem(item.entry_page_id,
                   UnwrapOr(get_name(store, item.entry_page_id), item.name),
                   UnwrapOr(get_icon(store, item.entry_page_id), item.icon_url),
                   OrElse(get_desc(store, item.entry_page_id), item.desc))

\* the loop: an item is pushed when its name or its icon is not empty
output_items(items, store) ==
    SelectSeq([i \in 1..Len(items) |-> list_item(items[i], store)],
              LAMBDA out : out.name # <<>> \/ out.icon_url # <<>>)

\* sort_unstable_by_key(|item| item.id): the orders of the items by id; the
\* order of items with equal ids is any
sort_unstable_by_id(items) ==
    {[k \in 1..Len(items) |-> items[order[k]]] :
        order \in {o \in Orders(1..Len(items)) :
                      \A k \in 1..(Len(items) - 1) : items[o[k]].id <= items[o[k + 1]].id}}

\* transform_list_file with the sorted order that came out
transform_list_file(items, store, sorted) ==
    IF Len(items) = 0 \/ Len(output_items(items, store)) = 0
    THEN None
    ELSE Some([total_items |-> Len(sorted), list |-> sorted])

MaxListItems == 2

\* the items of a menu as the API response gives them: entry_page_id is any
\* integer (deserialize_flexible_i64)
ListItems ==
    {ApiListItem(id, name, icon, None) :
        id \in {-1, 0, 1, 2}, name \in {<<>>, <<"Item">>}, icon \in {<<>>, <<"i.png">>}}

RawItems == UNION {[1..n -> ListItems] : n \in 0..MaxListItems}

ListStores ==
    {EmptyStore,
     (1 :> BulkInfo(Some(<<"Stored">>), Some(<<"About">>), Some(<<"s.png">>)))}

InitList ==
    /\ pc = "list"
    /\ raw_items \in RawItems
    /\ bulk_store \in ListStores
    /\ list_file = None
    /\ collected = {}
    /\ IdleRest
    /\ raw_page = <<>>
    /\ component_tasks = <<>>
    /\ final_components = <<>>
    /\ arrival = <<>>
    /\ output = None
    /\ warnings = <<>>
    /\ primary_bulk = NoPages
    /\ fallback_map = <<>>
    /\ all_ids_for_primary_lang = {}
    /\ nodes = <<>>
    /\ value = VNull
    /\ via = "list"
    /\ html = <<>>
    /\ fragment = <<>>
    /\ at = 1
    /\ stack = <<>>
    /\ deepest = 0
    /\ rich_text_builder = NewBuilder
    /\ calls = 0

\* transform_list_file is called on the items of the menu
TransformListFile ==
    /\ pc = "list"
    /\ \E sorted \in sort_unstable_by_id(output_items(raw_items, bulk_store)) :
           list_file' = transform_list_file(raw_items, bulk_store, sorted)
    /\ pc' = "listed"
    /\ UNCHANGED <<nodes, matVars, html, descentVars, builderVars, bulkVars, pageVars,
                   raw_items, collected, restVars>>

NextList == TransformListFile

SpecList == InitList /\ [][NextList]_vars

\* C12: no emitted output carries an entry id that is zero or negative; for
\* transform_list_file: every item of the list it returns has an id above 0.
C12_ListIdsPositive ==
    (pc = "listed" /\ list_file.some) =>
        \A k \in 1..Len(list_file.v.list) : list_file.v.list[k].id > 0

\* the one item of the menu has the id 0 and a name: the list that is returned
\* holds it
C12_ListItemZero ==
    /\ pc = "listed"
    /\ raw_items = <<ApiListItem(0, <<"Item">>, <<>>, None)>>
    /\ list_file = Some([total_items |-> 1,
                         list |-> <<OutputListItem(0, <<"Item">>, <<>>, None)>>])

\* C13: a custom-entry tag with a positive epid found in markup gives a
\* CustomEntry node whose name and icon are the store's when the store has
\* them and otherwise the tag's own inline text and icon attribute.
C13_TagFallback ==
    (pc = "done" /\ via = "parse_value_to_html_nodes" /\ value = VStr(EntryTag)) =>
        /\ Len(nodes) = 1
        /\ nodes[1].type = "CustomEntry"
        /\ nodes[1].ep_id = 7
        /\ nodes[1].name = UnwrapOr(get_name(bulk_store, 7), <<"a">>)
        /\ nodes[1].icon_url = UnwrapOr(get_icon(bulk_store, 7), <<"t.png">>)

\* the tag is decoded with a store that does not know the id 7: the node has
\* neither the inline text of the tag nor its icon
C13_TagValuesLost ==
    /\ pc = "done"
    /\ via = "parse_value_to_html_nodes"
    /\ value = VStr(EntryTag)
    /\ bulk_store = EmptyStore
    /\ Len(nodes) = 1
    /\ nodes[1].type = "CustomEntry"
    /\ nodes[1].name = <<>>
    /\ nodes[1].icon_url = <<>>

\* the accepted sentinel objects with the fields of their own
OwnFields ==
    {[toks |-> OwnObject, name |-> Some(<<"x">>), icon |-> Some(<<"o.png">>),
      desc |-> Some(<<"d">>)],
     [toks |-> NickObject, name |-> Some(<<"x">>), icon |-> None, desc |-> None],
     [toks |-> ObjToks([id |-> "7", amount |-> "3"]), name |-> None, icon |-> None,
      desc |-> None]}

\* the value the store holds for id 7 in a field, if any
Stored(field) == IF 7 \in DOMAIN bulk_store THEN bulk_store[7][field] ELSE None

\* C14: the CustomEntry node of an accepted sentinel object has the store's
\* name and icon for its id when the store has them, otherwise the object's
\* own, otherwise the empty string; its description is the store's when there
\* is one, otherwise the object's own.  The own value of the object never
\* stands where the store has a value.
C14_StoreBeforeOwn ==
    \A own \in OwnFields :
        (pc = "done" /\ value = VStr(Sentinel(own.toks))) =>
            /\ Len(nodes) = 1
            /\ nodes[1].type = "CustomEntry"
            /\ nodes[1].ep_id = 7
            /\ nodes[1].name = (IF Stored("name").some THEN Stored("name").v
                                ELSE IF own.name.some THEN own.name.v ELSE <<>>)
            /\ nodes[1].icon_url = (IF Stored("best_icon_url").some
                                    THEN Stored("best_icon_url").v
                                    ELSE IF own.icon.some THEN own.icon.v ELSE <<>>)
            /\ nodes[1].desc = (IF Stored("desc").some THEN Stored("desc") ELSE own.desc)

\* the object with a name, an icon and a description of its own met the store
\* that has a name and a description for its id and no icon: the node has the
\* name and the description of the store and the icon of the object
C14_Witness ==
    /\ pc = "done"
    /\ value = VStr(Sentinel(OwnObject))
    /\ bulk_store = [id \in {7} |-> BulkInfo(Some(<<"Iron">>), Some(<<"About">>), None)]
    /\ Len(nodes) = 1
    /\ nodes[1].name = <<"Iron">>
    /\ nodes[1].icon_url = <<"o.png">>
    /\ nodes[1].desc = Some(<<"About">>)

\* ------------------------------------------------------------------------
\* The id collector (transform/mod.rs) on the value of a field, and the decode
\* of the same value
\* ------------------------------------------------------------------------

\* trimmed.starts_with("\"$[") && trimmed.ends_with("]$\"")
IsQuotedSentinel(s) ==
    /\ Len(s) >= 3
    /\ s[1] = "\"" /\ s[2] = "$" /\ s[3] = "["
    /\ s[Len(s) - 2] = "]" /\ s[Len(s) - 1] = "$" /\ s[Len(s)] = "\""

\* trimmed.get(n..trimmed.len().saturating_sub(n)).unwrap_or("")
Inside(s, n) == IF Len(s) >= 2 * n THEN SubSeq(s, n + 1, Len(s) - n) ELSE <<>>

\* starts_with(open) && ends_with(close) for one-character patterns
Enclosed(s, open, close) == s # <<>> /\ s[1] = open /\ s[Len(s)] = close

\* the id of an Option when it is above 0
positive_id(id) == IF id.some /\ id.v > 0 THEN {id.v} ELSE {}

RECURSIVE collect_from_value(_)
\* IdCollector::collect_from_value: the ids it inserts
collect_from_value(data) ==
    LET parsed(r) == IF r.some THEN collect_from_value(r.v) ELSE {}
        material(json_str) ==
          IF json_str = <<>> THEN {}
          ELSE IF from_str(json_str).some THEN parsed(from_str(json_str))
          ELSE IF Enclosed(json_str, "{", "}")
          THEN parsed(from_str(<<"[">> \o json_str \o <<"]">>))
          ELSE {}
        string(trimmed) ==
          IF IsSentinel(trimmed) \/ IsQuotedSentinel(trimmed)
          THEN material(IF IsQuotedSentinel(trimmed) THEN Inside(trimmed, 3)
                        ELSE Inside(trimmed, 2))
          ELSE IF Enclosed(trimmed, "{", "}") \/ Enclosed(trimmed, "[", "]")
          THEN parsed(from_str(trimmed))
          ELSE {}
        object(map) ==
          positive_id(AndThenParseI64(GetFirst(map, <<"ep_id", "entry_page_id">>)))
          \cup positive_id(AndThenParseI64(MapGet(map, "post_id")))
          \cup UNION {collect_from_value(map[k]) : k \in DOMAIN map}
    IN  CASE data.t = "obj" -> object(data.o)
          [] data.t = "arr" -> UNION {collect_from_value(data.a[i]) : i \in 1..Len(data.a)}
          [] data.t = "str" -> string(trim(data.s))
          [] OTHER -> {}

\* the greatest number of strings in the array of a field
MaxIdStrings == 2

\* the strings of a field: sentinel objects, JSON objects, markup with a
\* custom-entry and with a custom-post tag, a plain text
IdStrings ==
    {Sentinel(ObjToks([id |-> i, amount |-> "none"])) : i \in {"7", "0", "\"7\""}}
    \cup {ObjToks([id |-> i, amount |-> "none"]) : i \in {"7", "0"}}
    \cup {Sentinel(OwnObject), EntryTag, PostTag, <<"I", "r", "o", "n">>}

IdValues ==
    {VStr(s) : s \in IdStrings}
    \cup {VArr([i \in 1..Len(a) |-> VStr(a[i])]) :
            a \in UNION {[1..n -> IdStrings] : n \in 0..MaxIdStrings}}

InitIds ==
    /\ pc = "collect"
    /\ value \in IdValues
    /\ via = "ids"
    /\ bulk_store = EmptyStore
    /\ collected = {}
    /\ IdleRest
    /\ nodes = <<>>
    /\ raw_items = <<>>
    /\ list_file = None
    /\ raw_page = <<>>
    /\ component_tasks = <<>>
    /\ final_components = <<>>
    /\ arrival = <<>>
    /\ output = None
    /\ warnings = <<>>
    /\ primary_bulk = NoPages
    /\ fallback_map = <<>>
    /\ all_ids_for_primary_lang = {}
    /\ html = <<>>
    /\ fragment = <<>>
    /\ at = 1
    /\ stack = <<>>
    /\ deepest = 0
    /\ rich_text_builder = NewBuilder
    /\ calls = 0

\* collect_all_ids runs over the value of the field; the store is then built
\* for the collected ids and holds a name and an icon for some of them
CollectIds ==
    /\ pc = "collect"
    /\ collected' = collect_from_value(value)
    /\ \E known \in SUBSET collect_from_value(value) :
           bulk_store' = [id \in known |-> BulkInfo(Some(<<"Iron">>), None, Some(<<"i.png">>))]
    /\ pc' = "decode"
    /\ UNCHANGED <<nodes, value, via, html, descentVars, builderVars, bulkVars, pageVars,
                   raw_items, list_file, restVars>>

\* the decoder of the component hands the same value to
\* parse_value_to_html_nodes
DecodeField ==
    /\ pc = "decode"
    /\ nodes' = parse_value_to_html_nodes(value, bulk_store)
    /\ pc' = "decoded"
    /\ UNCHANGED <<matVars, html, descentVars, builderVars, bulkVars, pageVars, listVars, restVars>>

NextIds == CollectIds \/ DecodeField

SpecIds == InitIds /\ [][NextIds]_vars

\* C15: every id that the decode looks up in the store, that is the id of
\* every CustomEntry and CustomPost node it returns, whether the node came
\* from sentinel JSON or from a custom tag in markup, is among the ids that
\* the collector returned.
C15_LookedUpIdsCollected ==
    pc = "decoded" =>
        \A k \in 1..Len(nodes) :
            /\ nodes[k].type = "CustomEntry" => nodes[k].ep_id \in collected
            /\ nodes[k].type = "CustomPost" => nodes[k].post_id \in collected

\* the field holds the markup of a custom-entry tag with epid 7: the decode
\* returned the CustomEntry node of id 7 and the collector returned no id
C15_TagIdMissed ==
    /\ pc = "decoded"
    /\ value = VStr(EntryTag)
    /\ Len(nodes) = 1
    /\ nodes[1].type = "CustomEntry"
    /\ nodes[1].ep_id = 7
    /\ collected = {}

\* ------------------------------------------------------------------------
\* transform_detail_page on pages whose components meet under one output key
\* with different variants, carry videos, or carry a blank event title
\* ------------------------------------------------------------------------

COMPONENT_VIDEO_COLLECTION ==
    <<"v", "i", "d", "e", "o", "_", "c", "o", "l", "l", "e", "c", "t", "i", "o", "n">>

\* the JSON object of a video
ApiVideoCollectionItem(video_id, title, url) ==
    VObj(("video_id" :> VStr(video_id)) @@ ("title" :> VStr(title)) @@ ("url" :> VStr(url)))

\* the data of a video_collection component: one category with the videos
ApiVideoCollectionDataList(videos) ==
    VObj(("list" :> VArr(<<VObj(("name" :> VStr(<<"Trailers">>))
                                @@ ("videos" :> VArr(videos)))>>)))

\* the component with the id base_info, which the deserializer does not know:
\* its output key is baseInfo
UnknownBaseInfo ==
    ApiComponent(<<"b", "a", "s", "e", "_", "i", "n", "f", "o">>, "Unknown", VStr(<<"raw">>))

\* the component with the id tcg_, which the deserializer does not know: its
\* output key is tcg
UnknownTcg == ApiComponent(<<"t", "c", "g", "_">>, "Unknown", VStr(<<"raw">>))

\* a timeline whose one event has the title " "
TimelineBlank ==
    ApiComponent(COMPONENT_TIMELINE, "Timeline",
                 [list |-> <<ApiTimelineEvent(<<" ">>, <<"<p>", "b", "</p>">>)>>])

VideoFirst ==
    ApiComponent(COMPONENT_VIDEO_COLLECTION, "VideoCollection",
                 ApiVideoCollectionDataList(
                     <<ApiVideoCollectionItem(<<"2">>, <<"A">>, <<"x">>)>>))

VideoSecond ==
    ApiComponent(COMPONENT_VIDEO_COLLECTION, "VideoCollection",
                 ApiVideoCollectionDataList(
                     <<ApiVideoCollectionItem(<<"1">>, <<"B">>, <<"y">>)>>))

VideoThird ==
    ApiComponent(COMPONENT_VIDEO_COLLECTION, "VideoCollection",
                 ApiVideoCollectionDataList(
                     <<ApiVideoCollectionItem(<<"3">>, <<"C">>, <<"x">>),
                       ApiVideoCollectionItem(<<"1">>, <<"B">>, <<"y">>)>>))

GalleryFirst ==
    ApiComponent(COMPONENT_GALLERY_CHARACTER, "GalleryCharacterList",
                 <<ApiGalleryCharacterItem(<<"Card">>, <<"1.png">>)>>)

GallerySecond ==
    ApiComponent(COMPONENT_GALLERY_CHARACTER, "GalleryCharacterList",
                 <<ApiGalleryCharacterItem(<<"Card">>, <<"2.png">>),
                   ApiGalleryCharacterItem(<<"Art">>, <<"3.png">>)>>)

\* a gallery whose first item has the img of GalleryFirst under another key,
\* whose next two items share their key and whose last item has a key of
\* GallerySecond under another img
GalleryThird ==
    ApiComponent(COMPONENT_GALLERY_CHARACTER, "GalleryCharacterList",
                 <<ApiGalleryCharacterItem(<<"Portrait">>, <<"1.png">>),
                   ApiGalleryCharacterItem(<<"Solo">>, <<"4.png">>),
                   ApiGalleryCharacterItem(<<"Solo">>, <<"5.png">>),
                   ApiGalleryCharacterItem(<<"Art">>, <<"6.png">>)>>)

\* the tcg component of the payload {}: every field takes its default
TcgEmpty ==
    ApiComponent(COMPONENT_TCG, "Tcg",
                 [cost_icon_type |-> <<>>, cost_icon_type_any |-> <<>>,
                  header_imgs |-> <<>>, hp |-> 0])

\* the reliquary set effect of the payload {"two_set_effect": " "}: a blank
\* effect is read as None
ReliquaryEmpty ==
    ApiComponent(COMPONENT_RELIQUARY_SET_EFFECT, "ReliquarySetEffect",
                 [two_set_effect |-> optional_string(("two_set_effect" :> VStr(<<" ">>)),
                                                     "two_set_effect"),
                  four_set_effect |-> optional_string(("two_set_effect" :> VStr(<<" ">>)),
                                                      "four_set_effect")])

\* the map of the payload {}
MapEmpty == ApiComponent(COMPONENT_MAP, "Map", [url |-> <<>>])

MergeComponents ==
    <<TcgEmpty,
      ReliquaryEmpty,
      MapEmpty,
      BaseInfoFirst,
      UnknownBaseInfo,
      ApiComponent(<<"b", "a", "s", "e", "_", "i", "n", "f", "o">>, "Unknown", VNull),
      ApiComponent(COMPONENT_TCG, "Tcg", ApiTcgData(10)),
      UnknownTcg,
      TimelineBlank,
      VideoFirst,
      VideoSecond,
      VideoThird,
      GalleryFirst,
      GallerySecond,
      GalleryThird>>

\* the lists of up to MaxComps of these components, in their order
MergeLists ==
    UNION {{[i \in 1..n |-> MergeComponents[pick[i]]] :
              pick \in {p \in [1..n -> 1..Len(MergeComponents)] :
                          \A i \in 1..(n - 1) : p[i] <= p[i + 1]}} :
           n \in 0..MaxComps}

\* the named page 7 with these components, the page with the three galleries,
\* and a page without an id
MergePages ==
    {ApiDetailPage(Some(7), <<"Page">>, ModulesInARow(c)) : c \in MergeLists}
    \cup {ApiDetailPage(Some(7), <<"Page">>,
                        ModulesInARow(<<GalleryFirst, GallerySecond, GalleryThird>>))}
    \cup {ApiDetailPage(None, <<"Page">>, <<>>)}

InitMerge ==
    /\ pc = "page"
    /\ raw_page \in MergePages
    /\ component_tasks = <<>>
    /\ final_components = NoComponents
    /\ arrival = <<>>
    /\ output = None
    /\ warnings = <<>>
    /\ raw_items = <<>>
    /\ list_file = None
    /\ collected = {}
    /\ IdleRest
    /\ bulk_store = EmptyStore
    /\ primary_bulk = NoPages
    /\ fallback_map = <<>>
    /\ all_ids_for_primary_lang = {}
    /\ nodes = <<>>
    /\ value = VNull
    /\ via = "page"
    /\ html = <<>>
    /\ fragment = <<>>
    /\ at = 1
    /\ stack = <<>>
    /\ deepest = 0
    /\ rich_text_builder = NewBuilder
    /\ calls = 0

SpecMerge == InitMerge /\ [][NextPage]_vars

\* the results that were folded into the map: the tasks that returned a
\* component
Folded == {k \in 1..Len(arrival) : arrival[k].result.kind = "some"}

\* the key of the video collections
VideoKey == to_camel_case(COMPONENT_VIDEO_COLLECTION)

\* C16: no RichText or Heading node of a returned page has a text that
\* trims to empty; for the timeline: the nodes of the events, the level-3
\* heading built from the title of an event among them.
C16_NoBlankText ==
    (pc = "done" /\ output.v.page.some) =>
        \A key \in DOMAIN output.v.page.v.components :
            output.v.page.v.components[key].variant = "Timeline" =>
                \A e \in 1..Len(output.v.page.v.components[key].content) :
                    \A n \in 1..Len(output.v.page.v.components[key].content[e].contents) :
                        ~is_empty_text(output.v.page.v.components[key].content[e].contents[n])

\* the page with the timeline whose event has the title " " is returned with
\* the level-3 heading " " before the text of the event
C16_BlankHeading ==
    /\ pc = "done"
    /\ raw_page.modules = ModulesInARow(<<TimelineBlank>>)
    /\ output.v.page.some
    /\ output.v.page.v.components[COMPONENT_TIMELINE].content[1].contents
         = <<Heading(3, <<" ">>, None), RichText(<<"b">>, None)>>

\* C19: after the video collections of a page have been folded the list under
\* their key is sorted by title and holds no two videos with the same url.
C19_VideosByTitleUniqueUrl ==
    (pc = "done" /\ VideoKey \in DOMAIN final_components) =>
        LET videos == final_components[VideoKey].content
        IN  /\ \A k \in 1..(Len(videos) - 1) : ~str_lt(videos[k + 1].title, videos[k].title)
            /\ \A k, l \in 1..Len(videos) : videos[k].url = videos[l].url => k = l

\* the collections with the video (2, A, x) and with the videos (3, C, x) and
\* (1, B, y) were folded: the list is B, A, C, and A and C have the url x
C19_VideosById ==
    /\ pc = "done"
    /\ raw_page.modules = ModulesInARow(<<VideoFirst, VideoThird>>)
    /\ Cardinality(Folded) = 2
    /\ [k \in 1..3 |-> final_components[VideoKey].content[k].title]
         = <<<<"B">>, <<"A">>, <<"C">>>>
    /\ [k \in 1..3 |-> final_components[VideoKey].content[k].url]
         = <<<<"y">>, <<"x">>, <<"x">>>>

\* the result that the turn of the loop just taken has joined
Incoming == arrival'[Len(arrival')].result

\* the turn joined a component whose output key is occupied by a component of
\* another variant
MeetsOtherVariant ==
    /\ pc = "join"
    /\ Len(arrival') = Len(arrival) + 1
    /\ Incoming.kind = "some"
    /\ to_camel_case(Incoming.id) \in DOMAIN final_components
    /\ final_components[to_camel_case(Incoming.id)].variant # Incoming.content.variant

\* C18: when the incoming component has another variant than the component
\* stored under its output key, the incoming one replaces the stored one, and
\* a warning is logged if and only if neither of the two is Unknown.
C18_OverwriteWarning ==
    [][MeetsOtherVariant =>
          /\ final_components'[to_camel_case(Incoming.id)] = Incoming.content
          /\ Len(warnings') > Len(warnings)
               <=> /\ final_components[to_camel_case(Incoming.id)].variant # "Unknown"
                   /\ Incoming.content.variant # "Unknown"]_vars

\* the component with the unknown id base_info was joined after the base
\* info: it replaced the base info under the key baseInfo, and the warning
\* was logged although the incoming variant is Unknown
C18_UnknownOverwritesWithWarning ==
    /\ pc = "done"
    /\ raw_page.modules = ModulesInARow(<<BaseInfoFirst, UnknownBaseInfo>>)
    /\ Len(arrival) = 2
    /\ arrival[1].task = 1
    /\ arrival[1].result.kind = "some"
    /\ arrival[2].result.kind = "some"
    /\ final_components[COMPONENT_BASE_INFO] = ComponentData("Unknown", VStr(<<"raw">>))
    /\ warnings = <<Logged("Warning", "Merging different component types")>>

\* the languages that hold a usable icon for id, by their index in Langs
UsableLangs(id) ==
    {k \in 1..Len(Langs) :
        /\ Langs[k] \in DOMAIN fallback_map
        /\ id \in DOMAIN fallback_map[Langs[k]]
        /\ Usable(fallback_map[Langs[k]][id].icon_url)}

\* C17: when the primary icon of a needed id is not usable and fallback
\* languages hold usable icons for it, the stored icon is the icon of the
\* earliest of these languages in the order of the supported languages, so
\* that the same inputs always give the same stored icon.
C17_EarliestFallback ==
    pc = "stored" =>
        \A id \in all_ids_for_primary_lang :
            (~Usable(PrimaryIcon(id)) /\ UsableLangs(id) # {}) =>
                get_icon(bulk_store, id)
                    = fallback_map[Langs[SetMin(UsableLangs(id))]][id].icon_url

\* de-de and en-us both hold a usable icon for id 1, whose primary icon is
\* marked invalid-file: the icon that was stored is the one of en-us
C17_LaterLanguageStored ==
    /\ pc = "stored"
    /\ 1 \in all_ids_for_primary_lang
    /\ PrimaryIcon(1) = Some(<<"zh-cn", "/", "invalid-file", "-x">>)
    /\ DOMAIN fallback_map = {"de-de", "en-us"}
    /\ UsableLangs(1) = {1, 2}
    /\ get_icon(bulk_store, 1) = Some(<<"en-us", "/", "icon.png">>)

\* the key of the galleries
GalleryKey == to_camel_case(COMPONENT_GALLERY_CHARACTER)

\* the item lists of the galleries that were folded, in the order in which
\* they were joined
FoldedGalleries ==
    LET galleries == SelectSeq([k \in 1..Len(arrival) |-> arrival[k].result],
                         LAMBDA r : r.kind = "some" /\ r.content.variant = "GalleryCharacter")
    IN  [g \in 1..Len(galleries) |-> galleries[g].content.content]

\* C20: after the galleries of a page have been folded, two items of the
\* merged list that share their img or their key come from one and the same
\* gallery, and the list starts with the items of the gallery that was stored
\* first, unchanged and in their order.
C20_GalleryMerge ==
    (pc = "done" /\ FoldedGalleries # <<>>) =>
        LET items == final_components[GalleryKey].content
            first == FoldedGalleries[1]
        IN  /\ Len(items) >= Len(first)
            /\ SubSeq(items, 1, Len(first)) = first
            /\ \A k, l \in 1..Len(items) :
                   (k < l /\ (items[k].img = items[l].img \/ items[k].key = items[l].key)) =>
                       \E g \in 1..Len(FoldedGalleries) :
                           {items[k], items[l]} \subseteq Range(FoldedGalleries[g])

\* the gallery with the item Card / 1.png was stored first, the gallery with
\* Card / 2.png and Art / 3.png was folded into it and then the gallery with
\* Portrait / 1.png, Solo / 4.png, Solo / 5.png and Art / 6.png: the img 1.png
\* and the keys Card and Art stay once, the two items of the key Solo are both
\* there
C20_Witness ==
    /\ pc = "done"
    /\ Len(FoldedGalleries) = 3
    /\ [k \in 1..Len(final_components[GalleryKey].content) |->
            <<final_components[GalleryKey].content[k].key,
              final_components[GalleryKey].content[k].img>>]
         = <<<<<<"Card">>, <<"1.png">>>>, <<<<"Art">>, <<"3.png">>>>,
             <<<<"Solo">>, <<"4.png">>>>, <<<<"Solo">>, <<"5.png">>>>>>

\* a reliquary set effect, a map or a tcg whose decoded fields are all empty
\* or zero
AllFieldsEmpty(typed_data) ==
    CASE typed_data.variant = "ReliquarySetEffect" ->
           ~typed_data.data.two_set_effect.some /\ ~typed_data.data.four_set_effect.some
      [] typed_data.variant = "Map" -> typed_data.data.url = <<>>
      [] typed_data.variant = "Tcg" ->
           /\ typed_data.data.cost_icon_type = <<>>
           /\ typed_data.data.cost_icon_type_any = <<>>
           /\ typed_data.data.header_imgs = <<>>
           /\ typed_data.data.hp = 0
      [] OTHER -> FALSE

\* C21: the task of a reliquary set effect, a map or a tcg whose decoded fields
\* are all empty or zero returns no component, so that the component map of
\* the page gets no entry from it.
C21_EmptySingleObjectOmitted ==
    \A i \in 1..Len(component_tasks) :
        AllFieldsEmpty(component_tasks[i].component.typed_data) =>
            component_tasks[i].returns.kind = "none"

\* the page whose one component is the tcg of the payload {} was returned with
\* the entry tcg in its component map, every field of it empty or zero
C21_EmptyTcgStored ==
    /\ pc = "done"
    /\ raw_page.modules = ModulesInARow(<<TcgEmpty>>)
    /\ arrival[1].result.kind = "some"
    /\ output.v.page.some
    /\ DOMAIN output.v.page.v.components = {to_camel_case(COMPONENT_TCG)}
    /\ output.v.page.v.components[to_camel_case(COMPONENT_TCG)]
         = ComponentData("Tcg", [cost_icon_type |-> <<>>, cost_icon_type_any |-> <<>>,
                                 header_imgs |-> <<>>, hp |-> 0])

\* ------------------------------------------------------------------------
\* ApiComponent::deserialize for a list-shaped component (api/model.rs)
\* ------------------------------------------------------------------------

\* Result<T, serde_json::Error>
Ok(x) == [ok |-> TRUE, v |-> x]

Err == [ok |-> FALSE]

\* Result::or_else
OrElseOk(a, b) == IF a.ok THEN a ELSE b

\* deserialize_string_or_value: the empty string is Null, any other value is
\* kept
deserialize_string_or_value(v) == IF v.t = "str" /\ v.s = <<>> THEN VNull ELSE v

\* the field k of an object, or the field at position n of an array
FieldOf(v, k, n) ==
    IF v.t = "obj" THEN MapGet(v.o, k)
    ELSE IF n <= Len(v.a) THEN Some(v.a[n]) ELSE None

\* from_value::<ApiBaseInfoItem>: an object whose key is a string, whose
\* is_material is a bool or null and whose id is a string or null, or an array
\* of these four fields; nothing else is an item
base_info_item(v) ==
    IF v.t \notin {"obj", "arr"} \/ (v.t = "arr" /\ Len(v.a) # 4) THEN Err
    ELSE LET key == FieldOf(v, "key", 1)
             val == FieldOf(v, "value", 2)
             mat == FieldOf(v, "is_material", 3)
             id == FieldOf(v, "id", 4)
         IN  IF \/ key.some /\ key.v.t # "str"
                \/ mat.some /\ mat.v.t \notin {"bool", "null"}
                \/ id.some /\ id.v.t \notin {"str", "null"}
             THEN Err
             ELSE Ok([key |-> IF key.some THEN key.v.s ELSE <<>>,
                      value |-> IF val.some THEN deserialize_string_or_value(val.v) ELSE VNull,
                      is_material |-> IF mat.some /\ mat.v.t = "bool"
                                      THEN Some(mat.v.b) ELSE None])

\* from_value::<Vec<ApiBaseInfoItem>>
from_value_vec(v) ==
    IF v.t = "arr" /\ \A i \in 1..Len(v.a) : base_info_item(v.a[i]).ok
    THEN Ok([i \in 1..Len(v.a) |-> base_info_item(v.a[i]).v])
    ELSE Err

\* from_value::<ListWrapper<T>> and from_value::<ContentWrapper<T>>: an object
\* with the field k, or an array of the one field
from_value_wrapper(v, k) ==
    CASE v.t = "obj" -> IF k \in DOMAIN v.o THEN from_value_vec(v.o[k]) ELSE Err
      [] v.t = "arr" -> IF Len(v.a) = 1 THEN from_value_vec(v.a[1]) ELSE Err
      [] OTHER -> Err

\* from_str::<ListWrapper<T>> and from_str::<ContentWrapper<T>>
from_str_wrapper(toks, k) ==
    IF from_str(toks).some THEN from_value_wrapper(from_str(toks).v, k) ELSE Err

\* from_str::<Vec<T>>
from_str_vec(toks) == IF from_str(toks).some THEN from_value_vec(from_str(toks).v) ELSE Err

\* a parse_list_component whose object and array arms end in or_else(Ok(vec![]))
\* like its string arm
parse_list_component_lenient(data_val) ==
    CASE data_val.t = "str" ->
           OrElseOk(OrElseOk(OrElseOk(from_str_wrapper(trim(data_val.s), "list"),
                                      from_str_wrapper(trim(data_val.s), "content")),
                             from_str_vec(trim(data_val.s))),
                    Ok(<<>>))
      [] data_val.t = "obj" ->
           IF "list" \in DOMAIN data_val.o
           THEN OrElseOk(from_value_vec(data_val.o["list"]), Ok(<<>>))
           ELSE IF "content" \in DOMAIN data_val.o
           THEN OrElseOk(from_value_vec(data_val.o["content"]), Ok(<<>>))
           ELSE Ok(<<>>)
      [] data_val.t = "arr" -> OrElseOk(from_value_vec(data_val), Ok(<<>>))
      [] OTHER -> Ok(<<>>)

\* parse_list_component
parse_list_component(data_val) ==
    CASE data_val.t = "str" ->
           OrElseOk(OrElseOk(OrElseOk(from_str_wrapper(trim(data_val.s), "list"),
                                      from_str_wrapper(trim(data_val.s), "content")),
                             from_str_vec(trim(data_val.s))),
                    Ok(<<>>))
      [] data_val.t = "obj" ->
           IF "list" \in DOMAIN data_val.o THEN from_value_vec(data_val.o["list"])
           ELSE IF "content" \in DOMAIN data_val.o THEN from_value_vec(data_val.o["content"])
           ELSE Ok(<<>>)
      [] data_val.t = "arr" -> from_value_vec(data_val)
      [] OTHER -> Ok(<<>>)

\* ApiComponent::deserialize: the data of the helper is typed by the
\* component_id; an error of the typing is the error of the deserializer
deserialize(h) ==
    LET data_val == deserialize_string_or_value(h.data)
    IN  IF h.component_id = COMPONENT_BASE_INFO
        THEN IF parse_list_component(data_val).ok
             THEN Ok(ApiComponent(h.component_id, "BaseInfoList",
                                  parse_list_component(data_val).v))
             ELSE Err
        ELSE Ok(ApiComponent(h.component_id, "Unknown", data_val))

MaxElems == 2

\* the elements of a list: an item, an object whose key is a number, a number
\* and a string
ListElems ==
    {VObj("key" :> VStr(<<"k">>)), VObj("key" :> VNum(7)), VNum(3), VStr(<<"x">>)}

\* the arrays of up to MaxElems elements
ListArrays == {VArr(a) : a \in UNION {[1..n -> ListElems] : n \in 0..MaxElems}}

\* the JSON texts of a payload that is a string
ListTexts ==
    {<<" ", "{", "\"list\"", ":", "[", "{", "\"key\"", ":", "\"x\"", "}", "]", "}", " ">>,
     <<"{", "\"content\"", ":", "[", "{", "\"key\"", ":", "\"x\"", "}", "]", "}">>,
     <<"[", "{", "\"key\"", ":", "\"x\"", "}", "]">>,
     <<"{", "\"list\"", ":", "[", "7", "]", "}">>,
     <<"{", "\"list\"", ":", "\"x\"", "}">>,
     <<"[", "{", "\"key\"", ":", "7", "}", "]">>,
     <<"[", "7", "]">>,
     <<"{", "\"key\"", ":", "\"x\"", "}">>,
     <<"[", "{">>,
     <<"x">>,
     <<>>}

\* the payloads: a string, an object with a list or content key or without
\* one, a bare array, a number, null
ListPayloads ==
    ListArrays
    \cup {VObj("list" :> a) : a \in ListArrays}
    \cup {VObj("content" :> a) : a \in ListArrays}
    \cup {VObj("list" :> VStr(<<"x">>)), VObj("content" :> VNum(7)),
          VObj("key" :> VStr(<<"k">>)), VObj(EmptyMap), VNum(7), VNull}
    \cup {VStr(t) : t \in ListTexts}

InitDe ==
    /\ pc = "helper"
    /\ helper \in {Some([component_id |-> id, data |-> d]) :
                      id \in {COMPONENT_BASE_INFO}, d \in ListPayloads}
                  \cup {Some([component_id |-> <<"b", "a", "s", "e">>, data |-> VStr(<<"x">>)])}
    /\ deserialized = None
    /\ IdleNet
    /\ raw_page = <<>>
    /\ component_tasks = <<>>
    /\ final_components = <<>>
    /\ arrival = <<>>
    /\ output = None
    /\ warnings = <<>>
    /\ raw_items = <<>>
    /\ list_file = None
    /\ collected = {}
    /\ bulk_store = EmptyStore
    /\ primary_bulk = NoPages
    /\ fallback_map = <<>>
    /\ all_ids_for_primary_lang = {}
    /\ nodes = <<>>
    /\ value = VNull
    /\ via = "page"
    /\ html = <<>>
    /\ fragment = <<>>
    /\ at = 1
    /\ stack = <<>>
    /\ deepest = 0
    /\ rich_text_builder = NewBuilder
    /\ calls = 0

\* ApiComponent::deserialize is called on the helper
Deserialize ==
    /\ pc = "helper"
    /\ deserialized' = Some(deserialize(helper.v))
    /\ pc' = "typed"
    /\ UNCHANGED <<nodes, matVars, html, descentVars, builderVars, bulkVars, pageVars,
                   listVars, helper, fetchVars, semVars, menuVars, runVars>>

NextDe == Deserialize

SpecDe == InitDe /\ [][NextDe]_vars

\* the payload is accepted as a list: parse_list_component_lenient, which
\* never fails, finds its items
Accepted(data_val) == parse_list_component_lenient(data_val).v

HeadingsOf(toks) ==
    {i \in 1..Len(toks) : TagKind(toks[i]) = "open" /\ TagInfo[toks[i]].tag \in HEADING_TAGS}

\* the start tags of the elements around token i that carry an alignment
AlignedAround(toks, i) ==
    {j \in 1..(i - 1) : /\ TagKind(toks[j]) = "open"
                        /\ ElementEnd(toks, j) > i
                        /\ get_alignment_style(StartTag(toks, j)).some}

\* the alignment of the heading at token i: its own, or else that of the
\* nearest element around it that carries one
NearestAlignment(toks, i) ==
    IF get_alignment_style(StartTag(toks, i)).some THEN get_alignment_style(StartTag(toks, i))
    ELSE IF AlignedAround(toks, i) = {} THEN None
    ELSE get_alignment_style(StartTag(toks, SetMax(AlignedAround(toks, i))))

\* C23: the Heading node of a fragment with one heading has the alignment of
\* the heading when the heading sets one, and otherwise the alignment of the
\* nearest element around the heading that carries one, whatever lies between.
C23_HeadingInheritsNearest ==
    (pc = "done" /\ Cardinality(HeadingsOf(fragment)) = 1) =>
        \A k \in 1..Len(nodes) :
            nodes[k].type = "Heading" =>
                nodes[k].alignment
                    = NearestAlignment(fragment, CHOOSE i \in HeadingsOf(fragment) : TRUE)

\* the heading in a <div> without alignment inside a centered <div> came out
\* without alignment
C23_GrandparentAlignmentLost ==
    /\ pc = "done"
    /\ html = <<"<div style=\"text-align:center\">", "<div>", "<h1>", "a", "</h1>",
                "</div>", "</div>">>
    /\ nodes = <<Heading(1, <<"a">>, None)>>

\* the start tags of the elements around token i
Around(toks, i) ==
    {j \in 1..(i - 1) : TagKind(toks[j]) = "open" /\ ElementEnd(toks, j) > i}

\* the inline elements around token i up to the nearest element around it
\* that is no inline element: the elements that work on the builder of the
\* text at token i
InlineAround(toks, i) ==
    {j \in Around(toks, i) :
        \A l \in Around(toks, i) : l >= j => TagInfo[toks[l]].tag \in HTML_INLINE_TAGS}

\* the color of the nearest of these elements that sets a color
AncestorColor(toks, i) ==
    LET colored == {j \in InlineAround(toks, i) :
                      get_element_style_color_hex(StartTag(toks, j)).some}
    IN  IF colored = {} THEN None
        ELSE get_element_style_color_hex(StartTag(toks, SetMax(colored)))

\* the next child of the innermost activation is a text
TextIsNext ==
    /\ pc = "descent"
    /\ stack # <<>>
    /\ ~depth_exceeded(Top(Running).depth)
    /\ ~Exhausted(Running)
    /\ TagKind(fragment[at]) = "text"

\* the step is the return of process_nested_inline_children to its caller
InlineReturns ==
    /\ pc = "descent"
    /\ stack # <<>>
    /\ Top(Running).fn = "process_nested_inline_children"
    /\ Len(stack') = Len(stack) - 1

\* C24: the color stack of a builder is never empty; when an inline element
\* has been processed the stack of the builder is the one from before the
\* element; a text is written in the color of the nearest inline element
\* around it that sets a color, in no color when there is none.
C24_ColorStackBalanced ==
    /\ [](\A k \in 1..Len(stack) : stack[k].builder.color_stack # <<>>)
    /\ [](TextIsNext => current_color(Top(Running).builder) = AncestorColor(fragment, at))
    /\ [][InlineReturns =>
            stack'[Len(stack')].builder.color_stack
                = stack[Len(stack) - 1].builder.color_stack]_vars

\* the parse of <span red>a<b>c</b>d</span>e: c in the <b> without a color
\* and d after the <b> are red, e after the <span> has no color
C24_Witness ==
    /\ pc = "done"
    /\ html = <<"<span style=\"color:#ff0000\">", "a", "<b>", "c", "</b>", "d", "</span>", "e">>
    /\ nodes = <<RichText(<<"<color=#ff0000>", "a", "</color>", " ",
                            "<color=#ff0000>", "c", "</color>", " ",
                            "<color=#ff0000>", "d", "</color>", " ", "e">>, None)>>

\* C25: two pieces of inline content in one run with whitespace between them
\* are written with exactly one space between them, whatever the kinds of the
\* two pieces (plain text, colored text, custom-ruby).
C25_OneSpaceBetween ==
    \A p1, p2 \in Pieces :
        (pc = "done" /\ html = Spaced(p1, p2)) =>
            nodes = <<RichText(p1.run \o <<" ">> \o p2.run, None)>>

\* the parse of <span>a <custom-ruby><rb>x</rb><rt>y</rt></custom-ruby></span>:
\* no space between a and x(y)
C25_NoSpaceBeforeRuby ==
    /\ pc = "done"
    /\ html = <<"<span>", "a", " ", "<custom-ruby>", "<rb>", "x", "</rb>", "<rt>", "y", "</rt>",
                "</custom-ruby>", "</span>">>
    /\ nodes = <<RichText(<<"a", "x", "(", "y", ")">>, None)>>

\* the nodes that the activation f hands to merge_consecutive_rich_text_nodes
Retained(f) ==
    SelectSeq(f.results \o flush(f.builder, f.element_alignment),
              LAMBDA n : ~is_empty_text(n))

\* node k goes on the run of RichText nodes of one alignment before it
GoesOn(ns, k) ==
    /\ k > 1
    /\ ns[k].type = "RichText"
    /\ ns[k - 1].type = "RichText"
    /\ ns[k - 1].alignment = ns[k].alignment

RECURSIVE JoinedRun(_, _)
\* the texts of the run that starts at node k, one newline between two texts
JoinedRun(ns, k) ==
    IF k < Len(ns) /\ GoesOn(ns, k + 1)
    THEN ns[k].text \o <<"\n">> \o JoinedRun(ns, k + 1)
    ELSE ns[k].text

\* the nodes with every run of RichText nodes of one alignment made one node
Regrouped(ns) ==
    LET starts == SelectSeq([k \in 1..Len(ns) |-> k], LAMBDA k : ~GoesOn(ns, k))
    IN  [n \in 1..Len(starts) |->
            IF ns[starts[n]].type = "RichText"
            THEN RichText(JoinedRun(ns, starts[n]), ns[starts[n]].alignment)
            ELSE ns[starts[n]]]

\* the innermost activation is parse_element_recursive after its last child
AboutToMerge ==
    /\ pc = "descent"
    /\ stack # <<>>
    /\ Top(Running).fn = "parse_element_recursive"
    /\ ~depth_exceeded(Top(Running).depth)
    /\ Exhausted(Running)

\* C26: in the returned node list no two neighbours are RichText nodes of the
\* same alignment; what parse_element_recursive returns is its retained nodes
\* in their order, each run of RichText nodes of one alignment made one node
\* whose text is the texts of the run with one newline between two of them.
C26_MergedRuns ==
    /\ pc = "done" => \A k \in 1..Len(nodes) : ~GoesOn(nodes, k)
    /\ AboutToMerge => parse_finish(Top(Running)) = Regrouped(Retained(Top(Running)))

\* the parse of a<div>b</div>c: the three texts in one node, one newline
\* between two of them
C26_Witness ==
    /\ pc = "done"
    /\ html = <<"a", "<div>", "b", "</div>", "c">>
    /\ nodes = <<RichText(<<"a", "\n", "b", "\n", "c">>, None)>>

\* ---------------------------------------------------------------------------
\* ApiClient::fetch_internal: the retry loop
\* ---------------------------------------------------------------------------

\* config::MAX_RETRIES
MAX_RETRIES == 3

\* Err(e)
ErrOf(e) == [ok |-> FALSE, e |-> e]

\* AppError::api_error(retcode, ..)
api_error(retcode) == [kind |-> "ApiError", retcode |-> retcode]

\* the HTTP statuses a server answers with
HttpStatuses == {200, 400, 403, 404, 413, 500, 503}

\* StatusCode::is_success
is_success(status) == status >= 200 /\ status < 300

\* what request_builder.send() comes back with: a response, then what reading
\* its body gives, or an error of the transport
SendOutcomes ==
    {[kind |-> "response", status |-> st, body |-> b] :
        st \in HttpStatuses, b \in {"bytes", "broken"}}
    \cup {[kind |-> "error", is_timeout |-> t] : t \in BOOLEAN}

\* ApiClient::handle_http_error
handle_http_error(status) ==
    IF status \in {404, 400, 403} THEN api_error(100010)
    ELSE IF status = 413 THEN api_error(413)
    ELSE api_error(status)

\* a retry loop that no error ends early
never_stop(error) == FALSE

\* fetch_internal: should_stop_retrying
should_stop_retrying(error) == error.kind = "ApiError" /\ error.retcode = 100010

\* fetch_internal: the error made of an error of send()
app_error(e) == IF e.is_timeout THEN [kind |-> "Timeout"] ELSE [kind |-> "Reqwest"]

InitFetch ==
    /\ pc = "send"
    /\ lang_valid \in BOOLEAN
    /\ attempt = 0
    /\ requests = <<>>
    /\ last_error = None
    /\ fetch_result = None
    /\ IdleDe
    /\ IdleSem
    /\ IdleMenu
    /\ IdleRun
    /\ raw_page = <<>>
    /\ component_tasks = <<>>
    /\ final_components = <<>>
    /\ arrival = <<>>
    /\ output = None
    /\ warnings = <<>>
    /\ raw_items = <<>>
    /\ list_file = None
    /\ collected = {}
    /\ bulk_store = EmptyStore
    /\ primary_bulk = NoPages
    /\ fallback_map = <<>>
    /\ all_ids_for_primary_lang = {}
    /\ nodes = <<>>
    /\ value = VNull
    /\ via = "page"
    /\ html = <<>>
    /\ fragment = <<>>
    /\ at = 1
    /\ stack = <<>>
    /\ deepest = 0
    /\ rich_text_builder = NewBuilder
    /\ calls = 0

\* what a step of fetch_internal leaves alone
idleInFetch == <<nodes, matVars, html, descentVars, builderVars, bulkVars, pageVars,
                 listVars, deVars, semVars, menuVars, runVars>>

\* HeaderValue::from_str(lang) fails: the ? returns before a request is sent
InvalidLang ==
    /\ pc = "send"
    /\ ~lang_valid
    /\ fetch_result' = Some(ErrOf([kind |-> "ConfigError"]))
    /\ pc' = "returned"
    /\ UNCHANGED <<idleInFetch, lang_valid, attempt, requests, last_error>>

\* send() gives a response with a success status: the body read is returned
SendSuccess ==
    /\ pc = "send"
    /\ lang_valid
    /\ \E o \in SendOutcomes :
        /\ o.kind = "response"
        /\ is_success(o.status)
        /\ requests' = Append(requests, o)
        /\ fetch_result' = Some(IF o.body = "bytes" THEN Ok("bytes")
                                 ELSE ErrOf([kind |-> "Reqwest"]))
    /\ pc' = "returned"
    /\ UNCHANGED <<idleInFetch, lang_valid, attempt, last_error>>

\* send() gives a response with another status
SendHttpError ==
    /\ pc = "send"
    /\ lang_valid
    /\ \E o \in SendOutcomes :
        /\ o.kind = "response"
        /\ ~is_success(o.status)
        /\ requests' = Append(requests, o)
        /\ LET error == handle_http_error(o.status) IN
            /\ last_error' = Some(error)
            /\ IF should_stop_retrying(error)
               THEN fetch_result' = Some(ErrOf(error)) /\ pc' = "returned"
               ELSE fetch_result' = fetch_result /\ pc' = "failed"
    /\ UNCHANGED <<idleInFetch, lang_valid, attempt>>

\* send() gives an error
SendFailed ==
    /\ pc = "send"
    /\ lang_valid
    /\ \E o \in SendOutcomes :
        /\ o.kind = "error"
        /\ requests' = Append(requests, o)
        /\ last_error' = Some(app_error(o))
    /\ pc' = "failed"
    /\ UNCHANGED <<idleInFetch, lang_valid, attempt, fetch_result>>

\* the sleep after a failed attempt that was not the last one, and the next
\* turn of the loop
SleepAndRetry ==
    /\ pc = "failed"
    /\ attempt < MAX_RETRIES
    /\ attempt' = attempt + 1
    /\ pc' = "send"
    /\ UNCHANGED <<idleInFetch, lang_valid, requests, last_error, fetch_result>>

\* the loop has ended: Err(last_error.unwrap_or_else(Unexpected))
RetriesExhausted ==
    /\ pc = "failed"
    /\ ~(attempt < MAX_RETRIES)
    /\ fetch_result' = Some(ErrOf(IF last_error.some THEN last_error.v
                                  ELSE [kind |-> "Unexpected"]))
    /\ pc' = "returned"
    /\ UNCHANGED <<idleInFetch, lang_valid, attempt, requests, last_error>>

NextFetch ==
    \/ InvalidLang
    \/ SendSuccess
    \/ SendHttpError
    \/ SendFailed
    \/ SleepAndRetry
    \/ RetriesExhausted

SpecFetch == InitFetch /\ [][NextFetch]_vars

\* every await of fetch_internal comes back: a request has a timeout, a sleep ends
FairSpecFetch == SpecFetch /\ WF_vars(NextFetch)

\* the error that the caller is to see for one attempt
ErrorOfAttempt(o) ==
    IF o.kind = "error"
    THEN IF o.is_timeout THEN [kind |-> "Timeout"] ELSE [kind |-> "Reqwest"]
    ELSE [kind |-> "ApiError",
          retcode |-> IF o.status \in {404, 400, 403} THEN 100010 ELSE o.status]

\* the attempt ends the call: a success, or a 404, a 400 or a 403
Final(o) == o.kind = "response" /\ o.status \in {200, 404, 400, 403}

\* C27: one call of fetch_internal sends at most MAX_RETRIES + 1 requests, sends
\* no request after a successful response or after a 404, a 400 or a 403, which
\* it returns as the error 100010; otherwise it returns the error of the last
\* attempt; and the call always ends with a body or with an error
C27_BoundedRetries ==
    /\ [](Len(requests) <= MAX_RETRIES + 1)
    /\ [][requests' # requests => (requests = <<>> \/ ~Final(Last(requests)))]_vars
    /\ [](pc = "returned" /\ requests # <<>> =>
            LET o == Last(requests) IN
            /\ Final(o) \/ Len(requests) = MAX_RETRIES + 1
            /\ IF o.kind = "response" /\ o.status = 200
               THEN fetch_result \in {Some(Ok("bytes")), Some(ErrOf([kind |-> "Reqwest"]))}
               ELSE fetch_result = Some(ErrOf(ErrorOfAttempt(o))))
    /\ [](pc = "returned" => fetch_result.some)
    /\ <>(pc = "returned")

\* a call that gave up after four attempts, of which the first was answered
\* with a 503 and the last timed out
C27_Witness ==
    /\ pc = "returned"
    /\ Len(requests) = MAX_RETRIES + 1
    /\ requests[1].kind = "response" /\ requests[1].status = 503
    /\ Last(requests).kind = "error" /\ Last(requests).is_timeout
    /\ fetch_result = Some(ErrOf([kind |-> "Timeout"]))

\* ---------------------------------------------------------------------------
\* the semaphores of the fetch categories
\* ---------------------------------------------------------------------------

\* config::MAX_LIST_CONCUR
MAX_LIST_CONCUR == 20

\* config::MAX_DETAIL_CONCUR
MAX_DETAIL_CONCUR == 30

\* config::MAX_BULK_CONCUR
MAX_BULK_CONCUR == 50

\* config::MAX_CALENDAR_CONCUR
MAX_CALENDAR_CONCUR == 5

\* processor::run: the semaphores it makes, by category
Semaphores ==
    [list |-> MAX_LIST_CONCUR, detail |-> MAX_DETAIL_CONCUR,
     bulk |-> MAX_BULK_CONCUR, calendar |-> MAX_CALENDAR_CONCUR]

\* how many requests of a category there are beyond the capacity of its
\* semaphore, the followed one not counted
MaxExtra == 2

\* an acquire that hands out a permit whether one is left or not
acquire_unbounded(left, queue, who) ==
    [permits |-> left, waiters |-> queue, granted |-> TRUE]

\* utils::acquire_semaphore: Semaphore::acquire takes a permit if one is left
\* and otherwise queues the caller behind the ones that wait already
acquire_semaphore(left, queue, who) ==
    IF left > 0
    THEN [permits |-> left - 1, waiters |-> queue, granted |-> TRUE]
    ELSE [permits |-> left, waiters |-> Append(queue, who), granted |-> FALSE]

\* drop(permit): the permit goes to the first caller that waits, and back to
\* the semaphore if none waits
drop_permit(left, queue) ==
    IF queue # <<>>
    THEN [permits |-> left, waiters |-> Tail(queue), woken |-> Some(Head(queue))]
    ELSE [permits |-> left + 1, waiters |-> queue, woken |-> None]

InitSem ==
    /\ pc = "fetching"
    /\ sem_category \in DOMAIN Semaphores
    /\ permits = Semaphores[sem_category]
    /\ waiters = <<>>
    /\ todo = Semaphores[sem_category] + MaxExtra
    /\ in_flight = 0
    /\ me = "todo"
    /\ IdleDe
    /\ IdleFetch
    /\ IdleMenu
    /\ IdleRun
    /\ raw_page = <<>>
    /\ component_tasks = <<>>
    /\ final_components = <<>>
    /\ arrival = <<>>
    /\ output = None
    /\ warnings = <<>>
    /\ raw_items = <<>>
    /\ list_file = None
    /\ collected = {}
    /\ bulk_store = EmptyStore
    /\ primary_bulk = NoPages
    /\ fallback_map = <<>>
    /\ all_ids_for_primary_lang = {}
    /\ nodes = <<>>
    /\ value = VNull
    /\ via = "page"
    /\ html = <<>>
    /\ fragment = <<>>
    /\ at = 1
    /\ stack = <<>>
    /\ deepest = 0
    /\ rich_text_builder = NewBuilder
    /\ calls = 0

\* what a step of a request leaves alone
idleInSem == <<pc, nodes, matVars, html, descentVars, builderVars, bulkVars, pageVars,
               listVars, deVars, fetchVars, menuVars, runVars, sem_category>>

\* the followed request calls acquire_semaphore
AcquireMine ==
    /\ me = "todo"
    /\ LET a == acquire_semaphore(permits, waiters, "me") IN
        /\ permits' = a.permits
        /\ waiters' = a.waiters
        /\ me' = IF a.granted THEN "in_flight" ELSE "waiting"
    /\ UNCHANGED <<idleInSem, todo, in_flight>>

\* another request calls acquire_semaphore
AcquireOther ==
    /\ todo > 0
    /\ LET a == acquire_semaphore(permits, waiters, "other") IN
        /\ permits' = a.permits
        /\ waiters' = a.waiters
        /\ in_flight' = IF a.granted THEN in_flight + 1 ELSE in_flight
    /\ todo' = todo - 1
    /\ UNCHANGED <<idleInSem, me>>

\* the fetch of the followed request comes back, with a value or with an
\* error, and drop(permit) is the next statement
FetchedMine ==
    /\ me = "in_flight"
    /\ \E result \in {"ok", "failed"} :
        LET d == drop_permit(permits, waiters) IN
        /\ permits' = d.permits
        /\ waiters' = d.waiters
        /\ in_flight' = IF d.woken.some THEN in_flight + 1 ELSE in_flight
        /\ me' = result
    /\ UNCHANGED <<idleInSem, todo>>

\* the fetch of another request comes back, with a value or with an error,
\* and drop(permit) is the next statement
FetchedOther ==
    /\ in_flight > 0
    /\ LET d == drop_permit(permits, waiters) IN
        /\ permits' = d.permits
        /\ waiters' = d.waiters
        /\ in_flight' = IF d.woken = Some("other") THEN in_flight ELSE in_flight - 1
        /\ me' = IF d.woken = Some("me") THEN "in_flight" ELSE me
    /\ UNCHANGED <<idleInSem, todo>>

NextSem ==
    \/ AcquireMine
    \/ AcquireOther
    \/ FetchedMine
    \/ FetchedOther

SpecSem == InitSem /\ [][NextSem]_vars

\* every request is polled, and every fetch comes back
FairSpecSem == SpecSem /\ WF_vars(NextSem)

\* the requests of the category that hold a permit
InFlight == in_flight + (IF me = "in_flight" THEN 1 ELSE 0)

\* C28: the requests of a category that are in flight are never more than the
\* capacity of its semaphore; a request that comes back, with a value or with
\* an error, gives its permit back, to the semaphore or to the first request
\* that waits; and a request that waits gets its permit in the end
C28_PermitsBounded ==
    /\ [](InFlight <= Semaphores[sem_category])
    /\ [](InFlight + permits = Semaphores[sem_category])
    /\ [][(me = "in_flight" /\ me' \in {"ok", "failed"}) =>
            permits' + Len(waiters) = permits + Len(waiters') + 1]_vars
    /\ [](Len(waiters) > 0 => <>(Len(waiters) = 0))
    /\ ((me = "waiting") ~> (me = "in_flight"))
    /\ <>(me \in {"ok", "failed"})

\* the followed request waits behind another one while the semaphore of the
\* calendar fetches has no permit left
C28_Witness ==
    /\ sem_category = "calendar"
    /\ InFlight = MAX_CALENDAR_CONCUR
    /\ permits = 0
    /\ waiters = <<"other", "me">>
    /\ me = "waiting"

\* ---------------------------------------------------------------------------
\* fetch_menu_list_items: the pages of a list
\* ---------------------------------------------------------------------------

\* the most items that a page of the API carries
MaxPageItems == 2

\* the largest total that the API holds
MaxTotal == 3

\* the most pages that the API answers with items
MaxPages == 3

\* the items of page n when it carries k of them
PageItems(n, k) == [i \in 1..k |-> <<n, i>>]

\* the errors of ApiClient::fetch that are no 100010
OtherErrors == {api_error(500), [kind |-> "Timeout"], [kind |-> "ParseError"]}

\* a truncate that cuts nothing
truncate_nothing(items, len) == items

\* Vec::truncate
truncate(items, len) == IF len < Len(items) THEN SubSeq(items, 1, len) ELSE items

InitMenu ==
    /\ pc = "paging"
    /\ api_total \in {None} \cup {Some(t) : t \in 0..MaxTotal}
    /\ page_responses = <<>>
    /\ total_from_api = None
    /\ current_page = 1
    /\ all_items = <<>>
    /\ menu_list = None
    /\ IdleDe
    /\ IdleFetch
    /\ IdleSem
    /\ IdleRun
    /\ raw_page = <<>>
    /\ component_tasks = <<>>
    /\ final_components = <<>>
    /\ arrival = <<>>
    /\ output = None
    /\ warnings = <<>>
    /\ raw_items = <<>>
    /\ list_file = None
    /\ collected = {}
    /\ bulk_store = EmptyStore
    /\ primary_bulk = NoPages
    /\ fallback_map = <<>>
    /\ all_ids_for_primary_lang = {}
    /\ nodes = <<>>
    /\ value = VNull
    /\ via = "page"
    /\ html = <<>>
    /\ fragment = <<>>
    /\ at = 1
    /\ stack = <<>>
    /\ deepest = 0
    /\ rich_text_builder = NewBuilder
    /\ calls = 0

\* what a turn of the loop of fetch_menu_list_items leaves alone
idleInMenu == <<nodes, matVars, html, descentVars, builderVars, bulkVars, pageVars,
                listVars, deVars, fetchVars, semVars, runVars, api_total>>

\* a turn of the loop whose fetch gives Ok(resp_data): the response carries the
\* total that the API holds for the menu, if it holds one, and a list
PageFetched ==
    /\ pc = "paging"
    /\ \E count \in 0..(IF current_page <= MaxPages THEN MaxPageItems ELSE 0) :
        LET resp_data == [total |-> api_total, list |-> PageItems(current_page, count)]
            known == IF total_from_api.some THEN total_from_api ELSE resp_data.total
            extended == all_items \o resp_data.list
        IN
        /\ page_responses' = Append(page_responses, Ok(resp_data))
        /\ total_from_api' = known
        /\ IF count = 0
           THEN /\ all_items' = all_items
                /\ current_page' = current_page
                /\ menu_list' = Some(Ok(all_items))
                /\ pc' = "listed"
           ELSE IF known.some /\ Len(extended) >= known.v
           THEN /\ all_items' = IF Len(extended) > known.v
                                 THEN truncate(extended, known.v) ELSE extended
                /\ current_page' = current_page
                /\ menu_list' = Some(Ok(all_items'))
                /\ pc' = "listed"
           ELSE /\ all_items' = extended
                /\ current_page' = current_page + 1
                /\ menu_list' = menu_list
                /\ pc' = "paging"
    /\ UNCHANGED idleInMenu

\* a turn of the loop whose fetch gives the error 100010: the loop ends
PageNotFound ==
    /\ pc = "paging"
    /\ page_responses' = Append(page_responses, ErrOf(api_error(100010)))
    /\ menu_list' = Some(Ok(all_items))
    /\ pc' = "listed"
    /\ UNCHANGED <<idleInMenu, total_from_api, current_page, all_items>>

\* a turn of the loop whose fetch gives another error: return Err(e)
PageFailed ==
    /\ pc = "paging"
    /\ \E e \in OtherErrors :
        /\ page_responses' = Append(page_responses, ErrOf(e))
        /\ menu_list' = Some(ErrOf(e))
    /\ pc' = "listed"
    /\ UNCHANGED <<idleInMenu, total_from_api, current_page, all_items>>

NextMenu ==
    \/ PageFetched
    \/ PageNotFound
    \/ PageFailed

SpecMenu == InitMenu /\ [][NextMenu]_vars

\* the items that the first n page responses carry, one after the other
RECURSIVE Carried(_, _)
Carried(rs, n) ==
    IF n = 0 THEN <<>>
    ELSE Carried(rs, n - 1) \o (IF rs[n].ok THEN rs[n].v.list ELSE <<>>)

\* the total that the page responses reported: the one of the first response
\* that carries one
Reported(rs) ==
    LET with == {n \in 1..Len(rs) : rs[n].ok /\ rs[n].v.total.some} IN
    IF with = {} THEN None
    ELSE rs[CHOOSE n \in with : \A o \in with : n <= o].v.total

\* no page is to be asked for after the responses rs
Ends(rs) ==
    LET r == Last(rs) IN
    \/ ~r.ok
    \/ r.v.list = <<>>
    \/ Reported(rs).some /\ Len(Carried(rs, Len(rs))) >= Reported(rs).v

BULK_BATCH_SIZE == 50

\* how many tasks a phase of the run has
MaxRunTasks == 1

\* the categories that determine_exit_code looks at for fetch failures
FetchCategories ==
    {"Navigation", "List Fetch", "Detail Fetch", "Calendar Fetch", "Bulk Primary",
     "Bulk Fallback"}

\* stats::initialize_stats
initialize_stats ==
    [cat \in FetchCategories \cup {"Save Files"} |->
        [ok |-> 0, fail |-> 0, skip_or_empty |-> 0]]

\* CategoryStats::add_ok
add_ok(stats, cat) == [stats EXCEPT ![cat].ok = @ + 1]

\* CategoryStats::add_fail
add_fail(stats, cat) == [stats EXCEPT ![cat].fail = @ + 1]

\* CategoryStats::add_skip
add_skip(stats, cat) == [stats EXCEPT ![cat].skip_or_empty = @ + 1]

\* stats::determine_exit_code
determine_exit_code(stats) ==
    LET fetch_failures == \E cat \in FetchCategories : stats[cat].fail > 0
        save_failures == stats["Save Files"].fail > 0
    IN IF fetch_failures \/ save_failures THEN 1 ELSE 0

\* fetch_bulk_data on the outcomes of its batch tasks: the pages of the batches
\* that came back with pages; a batch that failed is counted and logged
fetch_bulk_data(batches) ==
    Ok(Len(SelectSeq(batches, LAMBDA b : b = "pages")))

\* the batches that a number of ids is fetched in
BatchesOf(len) == (len + BULK_BATCH_SIZE - 1) \div BULK_BATCH_SIZE

InitRun ==
    /\ pc = "navigation"
    /\ run_stats = initialize_stats
    /\ pending = MaxRunTasks
    /\ fetch_errors = {}
    /\ run_result = None
    /\ IdleDe
    /\ IdleFetch
    /\ IdleSem
    /\ IdleMenu
    /\ raw_page = <<>>
    /\ component_tasks = <<>>
    /\ final_components = <<>>
    /\ arrival = <<>>
    /\ output = None
    /\ warnings = <<>>
    /\ raw_items = <<>>
    /\ list_file = None
    /\ collected = {}
    /\ bulk_store = EmptyStore
    /\ primary_bulk = NoPages
    /\ fallback_map = <<>>
    /\ all_ids_for_primary_lang = {}
    /\ nodes = <<>>
    /\ value = VNull
    /\ via = "page"
    /\ html = <<>>
    /\ fragment = <<>>
    /\ at = 1
    /\ stack = <<>>
    /\ deepest = 0
    /\ rich_text_builder = NewBuilder
    /\ calls = 0

\* what a step of processor::run leaves alone
idleInRun == <<nodes, matVars, html, descentVars, builderVars, bulkVars, pageVars,
               listVars, deVars, fetchVars, semVars, menuVars>>

\* phase 1: a navigation task is joined
NavJoined ==
    /\ pc = "navigation"
    /\ pending > 0
    /\ \E result \in {"entries", "empty", "error", "panicked"} :
        run_stats' = CASE result = "entries" -> add_ok(run_stats, "Navigation")
                       [] result = "empty" -> add_skip(run_stats, "Navigation")
                       [] OTHER -> add_fail(run_stats, "Navigation")
    /\ pending' = pending - 1
    /\ UNCHANGED <<idleInRun, pc, fetch_errors, run_result>>

\* the end of phase 1: without navigation data of any language the run
\* returns Ok(1); otherwise the list fetches start
NavDone ==
    /\ pc = "navigation"
    /\ pending = 0
    /\ IF run_stats["Navigation"].ok = 0
       THEN run_result' = Some(Ok(1)) /\ pc' = "returned" /\ pending' = 0
       ELSE run_result' = run_result /\ pc' = "list" /\ pending' = MaxRunTasks
    /\ UNCHANGED <<idleInRun, run_stats, fetch_errors>>

\* phase 2: a fetch_menu_list_items comes back, and the lists are through
\* when it was the last one
ListFetched ==
    /\ pc = "list"
    /\ pending > 0
    /\ \E result \in {"items", "empty", "error"} :
        /\ run_stats' = IF result = "items" THEN add_ok(run_stats, "List Fetch")
                         ELSE add_skip(run_stats, "List Fetch")
        /\ fetch_errors' = IF result = "error" THEN fetch_errors \cup {"list"}
                            ELSE fetch_errors
    /\ pending' = IF pending = 1 THEN MaxRunTasks ELSE pending - 1
    /\ pc' = IF pending = 1 THEN "detail" ELSE pc
    /\ UNCHANGED <<idleInRun, run_result>>

\* phase 3: a fetch_entry_detail comes back, with a page, with None for a
\* 100010, or with an error
DetailFetched ==
    /\ pc = "detail"
    /\ pending > 0
    /\ \E result \in {"page", "none", "error"} :
        /\ run_stats' = IF result = "page" THEN add_ok(run_stats, "Detail Fetch")
                         ELSE add_skip(run_stats, "Detail Fetch")
        /\ fetch_errors' = IF result = "error" THEN fetch_errors \cup {"detail"}
                            ELSE fetch_errors
    /\ pending' = IF pending = 1 THEN MaxRunTasks ELSE pending - 1
    /\ pc' = IF pending = 1 THEN "calendar" ELSE pc
    /\ UNCHANGED <<idleInRun, run_result>>

\* phase 4: a calendar task is joined
CalendarJoined ==
    /\ pc = "calendar"
    /\ pending > 0
    /\ \E result \in {"data", "empty", "error", "panicked"} :
        run_stats' = CASE result = "data" -> add_ok(run_stats, "Calendar Fetch")
                       [] result = "empty" -> add_skip(run_stats, "Calendar Fetch")
                       [] OTHER -> add_fail(run_stats, "Calendar Fetch")
    /\ pending' = IF pending = 1 THEN MaxRunTasks ELSE pending - 1
    /\ pc' = IF pending = 1 THEN "bulk" ELSE pc
    /\ UNCHANGED <<idleInRun, fetch_errors, run_result>>

\* phase 5: the bulk task of a language is joined: its fetch_bulk_data ran one
\* batch, and the fallback fetches ran if an id needed one
BulkJoined ==
    /\ pc = "bulk"
    /\ pending > 0
    /\ \E batch \in {"pages", "not_found", "failed"},
          fallback \in {"none", "pages", "failed", "panicked"},
          task \in {"joined", "panicked"} :
        LET primary_fetch_result == fetch_bulk_data(<<batch>>)
            prim_ok_count == BatchesOf(primary_fetch_result.v)
            prim_fail_skip_count == 0
            fallback_ok_batches ==
                IF fallback \in {"pages", "failed"} THEN BatchesOf(1) ELSE 0
            fallback_fail_batches == IF fallback = "panicked" THEN BatchesOf(1) ELSE 0
        IN
        /\ run_stats' =
              IF task = "panicked" THEN add_fail(run_stats, "Bulk Primary")
              ELSE [run_stats EXCEPT
                      !["Bulk Primary"].ok = @ + prim_ok_count,
                      !["Bulk Primary"].fail = @ + prim_fail_skip_count,
                      !["Bulk Fallback"].ok = @ + fallback_ok_batches,
                      !["Bulk Fallback"].fail = @ + fallback_fail_batches]
        /\ fetch_errors' = IF "failed" \in {batch, fallback}
                            THEN fetch_errors \cup {"bulk"} ELSE fetch_errors
    /\ pending' = IF pending = 1 THEN MaxRunTasks ELSE pending - 1
    /\ pc' = IF pending = 1 THEN "save" ELSE pc
    /\ UNCHANGED <<idleInRun, run_result>>

\* phase 7: ensure_output_directories or a create_dir_all fails, and the ?
\* returns the error
OutputDirFailed ==
    /\ pc = "save"
    /\ pending = MaxRunTasks
    /\ run_result' = Some(ErrOf([kind |-> "Io"]))
    /\ pc' = "returned"
    /\ pending' = 0
    /\ UNCHANGED <<idleInRun, run_stats, fetch_errors>>

\* phase 7: a save task is joined
SaveJoined ==
    /\ pc = "save"
    /\ pending > 0
    /\ \E result \in {"saved", "not_saved", "error", "panicked"} :
        run_stats' = IF result = "saved" THEN add_ok(run_stats, "Save Files")
                     ELSE add_fail(run_stats, "Save Files")
    /\ pending' = pending - 1
    /\ pc' = IF pending = 1 THEN "summary" ELSE pc
    /\ UNCHANGED <<idleInRun, fetch_errors, run_result>>

\* the end of run: Ok(determine_exit_code(&run_stats))
Finish ==
    /\ pc = "summary"
    /\ run_result' = Some(Ok(determine_exit_code(run_stats)))
    /\ pc' = "returned"
    /\ UNCHANGED <<idleInRun, run_stats, pending, fetch_errors>>

NextRun ==
    \/ NavJoined
    \/ NavDone
    \/ ListFetched
    \/ DetailFetched
    \/ CalendarJoined
    \/ BulkJoined
    \/ OutputDirFailed
    \/ SaveJoined
    \/ Finish

SpecRun == InitRun /\ [][NextRun]_vars

====
